---- MODULE Spec2Model ----
(***************************************************************************)
(* Station scheduler of the radio: the station_state cursor, the plays     *)
(* log, tick_all / ensure_station_current / _advance_station and the       *)
(* helpers they call, translated from src/radio/scheduler.py and           *)
(* src/radio/helpers.py.                                                   *)
(*                                                                         *)
(* Time is counted in quarter seconds (the overlay start window of 0.25 s  *)
(* is one unit); Sec(n) converts whole seconds.  SQL NULL is written 0 for *)
(* a media id, -1 for a timestamp, "" for a kind and << >> for queue_json  *)
(* (the code only ever dumps non-empty lists into queue_json).             *)
(***************************************************************************)
EXTENDS Integers, Sequences, FiniteSets, TLC

VARIABLES
    clock,          \* wall clock handed to the scheduler as now_ts
    station_state,  \* station_state table: station -> row, only for stations that have a row
    plays,          \* plays table, in insertion order
    reserved,       \* Scheduler._tick_reserved_song_ids
    cfg_var,        \* the per-station settings that vary between runs
    last,           \* the last scheduler call and what it returned
    overlay_song,   \* per station: started_ts of the last song instance an overlay was returned for
    bq,             \* input and result of the last queue build (queue builder specification)
    fn              \* arguments and result of the function applied last (function specifications)

vars == <<clock, station_state, plays, reserved, cfg_var, last, overlay_song, bq, fn>>

-----------------------------------------------------------------------------
(* Bounds of the model *)

\* quarter seconds of the clock window before the hour boundary
ClockLead == 5
\* quarter seconds of the clock window after the hour boundary
ClockTail == 1
\* largest media duration (seconds) drawn for the queue builder
MaxDur == 6
\* largest number of commercials drawn for the queue builder
MaxPool == 2
\* largest break_length_s (seconds) drawn for the queue builder
MaxTarget == 2

-----------------------------------------------------------------------------
(* Time *)

Sec(n) == n * 4

Hour == Sec(3600)

Max(a, b) == IF a >= b THEN a ELSE b

Min(a, b) == IF a <= b THEN a ELSE b

\* Scheduler._current_slot_start_ts: the local hour that contains now_ts
current_slot_start_ts(now_ts) == (now_ts \div Hour) * Hour

\* Scheduler._next_slot_start_ts: the next local hour boundary
next_slot_start_ts(now_ts) == current_slot_start_ts(now_ts) + Hour

\* the hour boundary the clock window lies around
Boundary == 2 * Hour

\* first instant of the clock window
T0 == Boundary - ClockLead

Times == T0 .. (Boundary + ClockTail)

\* ensure_station_current: "kind == song and active and seek <= 0.25"
OverlayStartWindow == 1

-----------------------------------------------------------------------------
(* Station configuration and media library *)

StationOrder == <<"KA", "KB">>

Stations == {StationOrder[i] : i \in 1..Len(StationOrder)}

NullId == 0

NullTs == 0 - 1

\* media table joined with station_media: id -> row
Media ==
    (1 :> [kind |-> "song", tag |-> "pop", duration_s |-> 8, dir |-> "music", stations |-> {}])
 @@ (2 :> [kind |-> "song", tag |-> "pop", duration_s |-> 2, dir |-> "music", stations |-> {}])
 @@ (3 :> [kind |-> "ident", tag |-> "", duration_s |-> 2, dir |-> "KA-idents", stations |-> {"KA"}])
 @@ (4 :> [kind |-> "commercial", tag |-> "", duration_s |-> 4, dir |-> "KA-ads", stations |-> {"KA"}])
 @@ (5 :> [kind |-> "commercial", tag |-> "", duration_s |-> 6, dir |-> "KA-ads", stations |-> {"KA"}])
 @@ (6 :> [kind |-> "overlay", tag |-> "", duration_s |-> 2, dir |-> "KA-overlays", stations |-> {"KA"}])
 @@ (7 :> [kind |-> "top_of_hour", tag |-> "", duration_s |-> 2, dir |-> "KA-toth", stations |-> {"KA"}])

MediaIds == DOMAIN Media

\* ScheduleEntry(tags=[], overlays_dir="", overlays_probability=0.0)
EmptyEntry == [tags |-> {}, overlays_dir |-> "", overlays_probability |-> 0]

\* values of rng.random() set against overlays_probability, both in percent
RandomDraws == {0, 50, 99}

CfgVar(break_frequency_s, overlays_probability, top_of_the_hour) ==
    [break_frequency_s |-> break_frequency_s, overlays_probability |-> overlays_probability,
     top_of_the_hour |-> top_of_the_hour]

\* The settings of KA a run may be started with.
CfgVars ==
    {CfgVar(0, 0, ""), CfgVar(1, 0, ""), CfgVar(1, 50, ""), CfgVar(0, 100, ""),
     CfgVar(1, 100, "KA-toth")}

\* StationConfig of each station; KA takes its varying settings from cv
StationCfg(cv, s) ==
    IF s = "KA"
    THEN [break_frequency_s |-> cv.break_frequency_s, break_length_s |-> 2,
          ident_frequency_s |-> 1, top_of_the_hour |-> cv.top_of_the_hour]
    ELSE [break_frequency_s |-> 0, break_length_s |-> 0,
          ident_frequency_s |-> 0, top_of_the_hour |-> ""]

\* cfg.schedule: station -> hour slot -> ScheduleEntry; hour slots are numbered from the epoch
Schedule(cv, s) ==
    IF s = "KA"
    THEN (1 :> [tags |-> {"pop"}, overlays_dir |-> "KA-overlays",
                overlays_probability |-> cv.overlays_probability])
    ELSE (1 :> [tags |-> {"rock"}, overlays_dir |-> "", overlays_probability |-> 0])
      @@ (2 :> [tags |-> {"pop"}, overlays_dir |-> "", overlays_probability |-> 0])

\* Scheduler._schedule_entry_for_now
schedule_entry_for_now(cv, s, now_ts) ==
    LET hr == (now_ts \div Hour) % (24 * 7)
        sch == Schedule(cv, s)
    IN  IF hr \in DOMAIN sch THEN sch[hr] ELSE EmptyEntry

-----------------------------------------------------------------------------
(* helpers.py: the store *)

\* columns of station_state (db.py SCHEMA), without the key
StationStateColumns ==
    {"current_media_id", "kind", "started_ts", "ends_ts", "queue_json", "queue_index",
     "pending_break", "last_break_ts", "force_ident_next", "last_ident_ts", "last_toth_slot_ts"}

\* column defaults of a freshly inserted station_state row
DefaultRow ==
    [current_media_id |-> NullId, kind |-> "", started_ts |-> NullTs, ends_ts |-> NullTs,
     queue_json |-> << >>, queue_index |-> 0, pending_break |-> 0, last_break_ts |-> 0,
     force_ident_next |-> 0, last_ident_ts |-> 0, last_toth_slot_ts |-> 0]

\* the columns get_station_state selects from station_state
GetStationStateColumns ==
    {"current_media_id", "kind", "started_ts", "ends_ts", "queue_json", "queue_index",
     "pending_break", "last_break_ts", "force_ident_next", "last_ident_ts"}

\* get_station_state: << >> when the station has no row, else <<row>> with the
\* selected columns and the path and duration_s of the joined media row
get_station_state(db, s) ==
    IF s \notin DOMAIN db THEN << >>
    ELSE LET r == db[s]
             m == r.current_media_id
         IN  << [c \in GetStationStateColumns \cup {"path", "duration_s"} |->
                   IF c = "path" THEN (IF m \in MediaIds THEN m ELSE NullId)
                   ELSE IF c = "duration_s" THEN (IF m \in MediaIds THEN Media[m].duration_s ELSE NullTs)
                   ELSE r[c]] >>

\* sqlite3.Row lookup by name: IndexError for a column the query did not select
HasKey(row, c) == c \in DOMAIN row

\* Python's "x or d" on a number: None and 0 give d
OrElse(v, d) == IF v = NullTs \/ v = 0 THEN d ELSE v

Upsert(db, s, row) == [x \in (DOMAIN db) \cup {s} |-> IF x = s THEN row ELSE db[x]]

\* variant of set_noise_state that leaves queue_json and queue_index alone
set_noise_state_keepqueue(db, s, now_ts, ends_ts) ==
    LET old == IF s \in DOMAIN db THEN db[s] ELSE DefaultRow
    IN  Upsert(db, s, [old EXCEPT !.current_media_id = NullId, !.kind = "noise",
                                  !.started_ts = now_ts, !.ends_ts = ends_ts])

\* variant of set_noise_state that records the period with kind ident
set_noise_state_ident(db, s, now_ts, ends_ts) ==
    LET old == IF s \in DOMAIN db THEN db[s] ELSE DefaultRow
    IN  Upsert(db, s, [old EXCEPT !.current_media_id = NullId, !.kind = "ident",
                                  !.started_ts = now_ts, !.ends_ts = ends_ts,
                                  !.queue_json = << >>, !.queue_index = 0])

\* set_noise_state: upsert that writes the cursor columns and the queue only
set_noise_state(db, s, now_ts, ends_ts) ==
    LET old == IF s \in DOMAIN db THEN db[s] ELSE DefaultRow
    IN  Upsert(db, s, [old EXCEPT !.current_media_id = NullId, !.kind = "noise",
                                  !.started_ts = now_ts, !.ends_ts = ends_ts,
                                  !.queue_json = << >>, !.queue_index = 0])

\* keyword parameters of set_station_state besides con and station_id_
SetStationStateParams ==
    {"media_id", "kind", "started_ts", "ends_ts", "queue_json", "queue_index",
     "pending_break", "last_break_ts", "force_ident_next", "last_ident_ts"}

\* set_station_state(**kw): TypeError for a keyword the function does not take;
\* otherwise upsert of the ten columns it writes.  Result: [exc, db].
set_station_state(db, s, kw) ==
    IF ~ (DOMAIN kw \subseteq SetStationStateParams)
    THEN [exc |-> "TypeError", db |-> db]
    ELSE LET old == IF s \in DOMAIN db THEN db[s] ELSE DefaultRow
         IN  [exc |-> "",
              db |-> Upsert(db, s, [old EXCEPT !.current_media_id = kw.media_id, !.kind = kw.kind,
                                       !.started_ts = kw.started_ts, !.ends_ts = kw.ends_ts,
                                       !.queue_json = kw.queue_json, !.queue_index = kw.queue_index,
                                       !.pending_break = kw.pending_break,
                                       !.last_break_ts = kw.last_break_ts,
                                       !.force_ident_next = kw.force_ident_next,
                                       !.last_ident_ts = kw.last_ident_ts])]

\* an argument of update_station_flags left at (or passed as) None
IsNone(c, v) == IF c = "queue_json" THEN v = << >> ELSE v = NullTs

\* variant of update_station_flags that also writes pending_break = 0 when it is not given
update_station_flags_resetpending(db, s, kw) ==
    IF s \notin DOMAIN db THEN db
    ELSE [db EXCEPT ![s] = [c \in StationStateColumns |->
                              IF c \in DOMAIN kw /\ ~ IsNone(c, kw[c]) THEN kw[c]
                              ELSE IF c = "pending_break" THEN 0 ELSE db[s][c]]]

\* update_station_flags(**kw): UPDATE of the columns whose argument is not None
update_station_flags(db, s, kw) ==
    IF s \notin DOMAIN db THEN db
    ELSE [db EXCEPT ![s] = [c \in StationStateColumns |->
                              IF c \in DOMAIN kw /\ ~ IsNone(c, kw[c]) THEN kw[c] ELSE db[s][c]]]

\* insert_play
insert_play(pl, s, media_id, kind, started_ts) ==
    Append(pl, [station |-> s, media_id |-> media_id, kind |-> kind, started_ts |-> started_ts])

\* media_by_id: the ids for which a media row exists
media_by_id(mid) == mid \in MediaIds

\* rows of station_media_pool / random_station_media: media of that kind linked to the station
station_media_pool(s, kind) == {m \in MediaIds : Media[m].kind = kind /\ s \in Media[m].stations}

\* rows of random_station_media_filtered: also "path LIKE prefix%"
station_media_filtered(s, kind, path_prefix) ==
    {m \in station_media_pool(s, kind) : Media[m].dir = path_prefix}

-----------------------------------------------------------------------------
(* scheduler.py: results *)

\* NowPlaying; path and ident_overlay are given by media id, NullId for None.
\* NoNP stands for "no value returned" (the call raised).
NoNP ==
    [kind |-> "", path |-> NullId, media_id |-> NullId, started_ts |-> NullTs, ends_ts |-> NullTs,
     seek_s |-> 0, slot_end_ts |-> NullTs, ident_overlay |-> NullId]

NowPlaying(kind, path, media_id, started_ts, ends_ts, seek_s, slot_end_ts, ident_overlay) ==
    [kind |-> kind, path |-> path, media_id |-> media_id, started_ts |-> started_ts,
     ends_ts |-> ends_ts, seek_s |-> seek_s, slot_end_ts |-> slot_end_ts,
     ident_overlay |-> ident_overlay]

\* What a call leaves behind: the exception it raised ("" for none), the store as
\* the shared connection sees it, the reserved ids and the value returned.
Outcome(exc, db, pl, rs, np) == [exc |-> exc, db |-> db, plays |-> pl, reserved |-> rs, np |-> np]

-----------------------------------------------------------------------------
(* scheduler.py: overlays *)

\* variant of _overlay_if_due without the "if not consume: return None" guard
overlay_if_due_unguarded(s, db, st_row, entry, consume) ==
    LET force == IF st_row # << >> THEN st_row[1].force_ident_next ELSE 0
        cleared == update_station_flags(db, s, [force_ident_next |-> 0])
        overlays == station_media_filtered(s, "overlay", entry.overlays_dir)
        dues == IF force # 0 THEN {TRUE}
                ELSE IF entry.overlays_probability > 0
                     THEN {d < entry.overlays_probability : d \in RandomDraws}
                     ELSE {FALSE}
    IN  IF entry.overlays_dir = "" \/ overlays = {}
        THEN {[db |-> IF force # 0 THEN cleared ELSE db, overlay |-> NullId]}
        ELSE {IF x[2] THEN [db |-> cleared, overlay |-> x[1]]
                      ELSE [db |-> db, overlay |-> NullId] : x \in overlays \X dues}

\* variant of _overlay_if_due that sets force_ident_next when the draw gives no overlay
overlay_if_due_rearm(s, db, st_row, entry, consume) ==
    IF ~ consume THEN {[db |-> db, overlay |-> NullId]}
    ELSE
      LET force == IF st_row # << >> THEN st_row[1].force_ident_next ELSE 0
          cleared == update_station_flags(db, s, [force_ident_next |-> 0])
          armed == update_station_flags(db, s, [force_ident_next |-> 1])
          overlays == station_media_filtered(s, "overlay", entry.overlays_dir)
          dues == IF force # 0 THEN {TRUE}
                  ELSE IF entry.overlays_probability > 0
                       THEN {d < entry.overlays_probability : d \in RandomDraws}
                       ELSE {FALSE}
      IN  IF entry.overlays_dir = "" \/ overlays = {}
          THEN {[db |-> IF force # 0 THEN cleared ELSE db, overlay |-> NullId]}
          ELSE {IF x[2] THEN [db |-> cleared, overlay |-> x[1]]
                        ELSE [db |-> armed, overlay |-> NullId] : x \in overlays \X dues}

\* variant of _overlay_if_due that leaves force_ident_next alone when no overlay can be produced
overlay_if_due_latched(s, db, st_row, entry, consume) ==
    IF ~ consume THEN {[db |-> db, overlay |-> NullId]}
    ELSE
      LET force == IF st_row # << >> THEN st_row[1].force_ident_next ELSE 0
          cleared == update_station_flags(db, s, [force_ident_next |-> 0])
          overlays == station_media_filtered(s, "overlay", entry.overlays_dir)
          dues == IF force # 0 THEN {TRUE}
                  ELSE IF entry.overlays_probability > 0
                       THEN {d < entry.overlays_probability : d \in RandomDraws}
                       ELSE {FALSE}
      IN  IF entry.overlays_dir = "" \/ overlays = {}
          THEN {[db |-> db, overlay |-> NullId]}
          ELSE {IF x[2] THEN [db |-> cleared, overlay |-> x[1]]
                        ELSE [db |-> db, overlay |-> NullId] : x \in overlays \X dues}

\* Scheduler._overlay_if_due: the set of possible [db, overlay]
overlay_if_due(s, db, st_row, entry, consume) ==
    IF ~ consume THEN {[db |-> db, overlay |-> NullId]}
    ELSE
      LET force == IF st_row # << >> THEN st_row[1].force_ident_next ELSE 0
          cleared == update_station_flags(db, s, [force_ident_next |-> 0])
          overlays == station_media_filtered(s, "overlay", entry.overlays_dir)
          dues == IF force # 0 THEN {TRUE}
                  ELSE IF entry.overlays_probability > 0
                       THEN {d < entry.overlays_probability : d \in RandomDraws}
                       ELSE {FALSE}
      IN  IF entry.overlays_dir = "" \/ overlays = {}
          THEN {[db |-> IF force # 0 THEN cleared ELSE db, overlay |-> NullId]}
          ELSE {IF x[2] THEN [db |-> cleared, overlay |-> x[1]]
                        ELSE [db |-> db, overlay |-> NullId] : x \in overlays \X dues}

\* Scheduler._should_queue_ident
should_queue_ident(cfg, now_ts, st_row) ==
    IF cfg.ident_frequency_s <= 0 THEN FALSE
    ELSE LET last_ident_ts == IF st_row # << >> THEN OrElse(st_row[1].last_ident_ts, 0) ELSE 0
         IN  (now_ts - last_ident_ts) >= Sec(cfg.ident_frequency_s)

-----------------------------------------------------------------------------
(* scheduler.py: song selection *)

\* pool_limit=600
PoolLimit == 600

\* rows[:20]
TopRows == 20

\* near_window_s=30.0
NearWindow == Sec(30)

\* duration_jitter_s=12.0
DurationJitter == Sec(12)

\* Scheduler._currently_playing_media_ids
currently_playing_media_ids(db) ==
    {db[x].current_media_id : x \in DOMAIN db} \ {NullId}

RECURSIVE OrderByDurationDesc(_)
\* ORDER BY duration_s DESC, id DESC
OrderByDurationDesc(S) ==
    IF S = {} THEN << >>
    ELSE LET top == CHOOSE m \in S : \A o \in S :
                        \/ Media[o].duration_s < Media[m].duration_s
                        \/ (Media[o].duration_s = Media[m].duration_s /\ o <= m)
         IN  <<top>> \o OrderByDurationDesc(S \ {top})

Take(seq, n) == SubSeq(seq, 1, Min(n, Len(seq)))

Elems(seq) == {seq[i] : i \in 1..Len(seq)}

\* the rows the song query returns for one (jittered) max_duration
SongRows(tags, max_duration) ==
    Take(OrderByDurationDesc({m \in MediaIds : /\ Media[m].kind = "song"
                                               /\ Media[m].tag \in tags
                                               /\ Media[m].duration_s <= max_duration}),
         PoolLimit)

\* the rows rng.choice picks from, given the query's rows
PickFrom(rows0, avoid_ids) ==
    LET filtered == SelectSeq(rows0, LAMBDA m : m \notin avoid_ids)
        rows == IF filtered # << >> THEN filtered ELSE rows0
        best_dur == Media[rows[1]].duration_s
        near == SelectSeq(rows, LAMBDA m : (best_dur - Media[m].duration_s) <= NearWindow)
    IN  IF Len(near) >= 2 THEN Elems(near) ELSE Elems(Take(rows, TopRows))

\* variant of the jitter that lengthens the limit instead of shortening it
JitteredLimits_longer(max_duration) ==
    {max_duration, max_duration + DurationJitter}

\* max(1.0, max_duration - rng.uniform(0.0, duration_jitter_s)): the draw is any
\* real in [0, duration_jitter_s]; the query's rows change only where the limit
\* passes a song's duration, so the lowest limit, the undrawn one and the
\* durations between them stand for all draws
JitteredLimits(max_duration) ==
    LET lo == Max(Sec(1), max_duration - DurationJitter)
    IN  {lo, max_duration}
        \cup {Media[m].duration_s : m \in {x \in MediaIds : /\ Media[x].kind = "song"
                                                            /\ Media[x].duration_s >= lo
                                                            /\ Media[x].duration_s <= max_duration}}

\* Scheduler._pick_best_fit_song_station_seeded: the set of songs it may return, NullId for None
pick_best_fit_song_station_seeded(tags, max_duration, db, rs) ==
    IF max_duration <= Sec(1) \/ tags = {} THEN {NullId}
    ELSE UNION { LET rows0 == SongRows(tags, limit)
                 IN  IF rows0 = << >> THEN {NullId}
                     ELSE PickFrom(rows0, rs \cup currently_playing_media_ids(db))
                 : limit \in JitteredLimits(max_duration) }

-----------------------------------------------------------------------------
(* scheduler.py: queue builder *)

\* filler_slop_s = 4.0
filler_slop_s == Sec(4)

\* break_slop_s = 4.0
break_slop_s == Sec(4)

\* "if dur <= 0.1: continue"
TooShort(dur) == dur * 10 <= Sec(1)

RECURSIVE GreedyFill(_, _, _, _, _)
\* the loop over the shuffled commercials; items are <<id, duration_s>>
GreedyFill(commercials, i, queue, total, max_total) ==
    IF i > Len(commercials) \/ total >= max_total THEN queue
    ELSE LET dur == commercials[i][2]
         IN  IF TooShort(dur) THEN GreedyFill(commercials, i + 1, queue, total, max_total)
             ELSE IF (total + dur) <= max_total
                  THEN GreedyFill(commercials, i + 1, Append(queue, commercials[i][1]),
                                  total + dur, max_total)
                  ELSE GreedyFill(commercials, i + 1, queue, total, max_total)

\* variant of the queue builder that allows twice the slop
BuildQueue_wideslop(ident, commercials, target_s, slop_s) ==
    LET max_total == Max(0, target_s) + 2 * slop_s
        queue0 == IF ident # << >> THEN <<ident[1][1]>> ELSE << >>
        total0 == IF ident # << >> THEN ident[1][2] ELSE 0
    IN  IF commercials = << >> THEN queue0
        ELSE GreedyFill(commercials, 1, queue0, total0, max_total)

\* the body of _build_ident_plus_commercials_queue once the ident (<< >> for none) is
\* drawn and the commercials are shuffled
BuildQueue(ident, commercials, target_s, slop_s) ==
    LET max_total == Max(0, target_s) + slop_s
        queue0 == IF ident # << >> THEN <<ident[1][1]>> ELSE << >>
        total0 == IF ident # << >> THEN ident[1][2] ELSE 0
    IN  IF commercials = << >> THEN queue0
        ELSE GreedyFill(commercials, 1, queue0, total0, max_total)

\* all orders of a set, as sequences
Orders(S) == {q \in [1..Cardinality(S) -> S] : \A i, j \in 1..Cardinality(S) : q[i] = q[j] => i = j}

Timed(m) == <<m, Media[m].duration_s>>

\* variant of the queue builder that leads with an ident whatever played last
build_ident_plus_commercials_queue_lead(s, target_s, slop_s, skip_leading_ident) ==
    LET idents == IF station_media_pool(s, "ident") = {}
                  THEN {<< >>}
                  ELSE {<<Timed(m)>> : m \in station_media_pool(s, "ident")}
        shuffles == {[i \in DOMAIN q |-> Timed(q[i])] : q \in Orders(station_media_pool(s, "commercial"))}
    IN  {BuildQueue(x[1], x[2], target_s, slop_s) : x \in idents \X shuffles}

\* Scheduler._build_ident_plus_commercials_queue: the set of queues it may return
build_ident_plus_commercials_queue(s, target_s, slop_s, skip_leading_ident) ==
    LET idents == IF skip_leading_ident \/ station_media_pool(s, "ident") = {}
                  THEN {<< >>}
                  ELSE {<<Timed(m)>> : m \in station_media_pool(s, "ident")}
        shuffles == {[i \in DOMAIN q |-> Timed(q[i])] : q \in Orders(station_media_pool(s, "commercial"))}
    IN  {BuildQueue(x[1], x[2], target_s, slop_s) : x \in idents \X shuffles}

-----------------------------------------------------------------------------
(* scheduler.py: _advance_station, lines 174-427.  c is the call:              *)
(* [s, now_ts, slot_end_ts, active, entry, cfg, tags]; st is the row read at  *)
(* line 187 (<< >> for None), db/pl/rs the store and the reserved ids.        *)

\* remaining = max(0.0, slot_end_ts - now_ts)
Remaining(c) == Max(0, c.slot_end_ts - c.now_ts)

\* lines 377-427: filler (ident + commercials), or noise when the queue is empty
AdvanceFiller(c, st, flags, db, pl, rs) ==
    UNION {
      IF q = << >>
      THEN {Outcome("", set_noise_state(db, c.s, c.now_ts, c.slot_end_ts), pl, rs,
                    NowPlaying("noise", NullId, NullId, c.now_ts, c.slot_end_ts, 0,
                               c.slot_end_ts, NullId))}
      ELSE
        LET first_id == q[1]
            dur == Media[first_id].duration_s
            kind == Media[first_id].kind
            w == set_station_state(db, c.s,
                   [media_id |-> first_id, kind |-> kind, started_ts |-> c.now_ts,
                    ends_ts |-> c.now_ts + dur, queue_json |-> q, queue_index |-> 1,
                    pending_break |-> 0, last_break_ts |-> flags.last_break_ts,
                    force_ident_next |-> flags.force_ident_next,
                    last_ident_ts |-> flags.last_ident_ts,
                    last_toth_slot_ts |-> flags.last_toth_slot_ts])
        IN  IF w.exc # "" THEN {Outcome(w.exc, db, pl, rs, NoNP)}
            ELSE {Outcome("", w.db, insert_play(pl, c.s, first_id, kind, c.now_ts), rs,
                          NowPlaying(kind, first_id, first_id, c.now_ts, c.now_ts + dur, 0,
                                     c.slot_end_ts, NullId))}
      : q \in build_ident_plus_commercials_queue(c.s, Remaining(c), filler_slop_s, FALSE) }

\* lines 316-375: best-fit song, with an optional between-song ident queued after it
AdvanceSong(c, st, flags, db, pl, rs) ==
    UNION {
      IF song = NullId THEN AdvanceFiller(c, st, flags, db, pl, rs)
      ELSE
        LET rs1 == rs \cup {song}
            dur == Media[song].duration_s
            idents == IF should_queue_ident(c.cfg, c.now_ts, st)
                         /\ station_media_pool(c.s, "ident") # {}
                      THEN station_media_pool(c.s, "ident") ELSE {NullId}
        IN  UNION {
              LET w == set_station_state(db, c.s,
                         [media_id |-> song, kind |-> "song", started_ts |-> c.now_ts,
                          ends_ts |-> c.now_ts + dur,
                          queue_json |-> IF ident # NullId THEN <<song, ident>> ELSE << >>,
                          queue_index |-> IF ident # NullId THEN 1 ELSE 0,
                          pending_break |-> 0, last_break_ts |-> flags.last_break_ts,
                          force_ident_next |-> flags.force_ident_next,
                          last_ident_ts |-> IF ident # NullId THEN c.now_ts ELSE flags.last_ident_ts,
                          last_toth_slot_ts |-> flags.last_toth_slot_ts])
              IN  IF w.exc # "" THEN {Outcome(w.exc, db, pl, rs1, NoNP)}
                  ELSE {Outcome("", o.db, insert_play(pl, c.s, song, "song", c.now_ts), rs1,
                                NowPlaying("song", song, song, c.now_ts, c.now_ts + dur, 0,
                                           c.slot_end_ts, o.overlay))
                        : o \in overlay_if_due(c.s, w.db, st, c.entry, c.active)}
              : ident \in idents }
      : song \in pick_best_fit_song_station_seeded(c.tags, Remaining(c), db, rs) }

\* lines 269-314: commercial break when one is pending
AdvanceBreak(c, st, flags, db, pl, rs) ==
    IF flags.pending_break # 0 /\ c.cfg.break_length_s > 0
    THEN
      LET last_kind == IF st # << >> THEN st[1].kind ELSE ""
      IN  UNION {
            IF q # << >>
            THEN
              LET first_id == q[1]
                  dur == Media[first_id].duration_s
                  kind == Media[first_id].kind
                  w == set_station_state(db, c.s,
                         [media_id |-> first_id, kind |-> kind, started_ts |-> c.now_ts,
                          ends_ts |-> c.now_ts + dur, queue_json |-> q, queue_index |-> 1,
                          pending_break |-> 0, last_break_ts |-> c.now_ts,
                          force_ident_next |-> 1, last_ident_ts |-> flags.last_ident_ts,
                          last_toth_slot_ts |-> flags.last_toth_slot_ts])
              IN  IF w.exc # "" THEN {Outcome(w.exc, db, pl, rs, NoNP)}
                  ELSE {Outcome("", w.db, insert_play(pl, c.s, first_id, kind, c.now_ts), rs,
                                NowPlaying(kind, first_id, first_id, c.now_ts, c.now_ts + dur, 0,
                                           c.slot_end_ts, NullId))}
            ELSE AdvanceSong(c, st, flags,
                             update_station_flags(db, c.s, [pending_break |-> 0]), pl, rs)
            : q \in build_ident_plus_commercials_queue(
                      c.s, Sec(c.cfg.break_length_s), break_slop_s, last_kind = "ident") }
    ELSE AdvanceSong(c, st, flags, db, pl, rs)

\* lines 242-267: top-of-the-hour jingle, once per slot
AdvanceTopOfHour(c, st, flags, db, pl, rs) ==
    LET slot_start_ts == current_slot_start_ts(c.now_ts)
        toth_dir == c.cfg.top_of_the_hour
        items == station_media_filtered(c.s, "top_of_hour", toth_dir)
    IN  IF toth_dir # "" /\ flags.last_toth_slot_ts # slot_start_ts /\ items # {}
        THEN UNION {
               LET dur == Media[mid].duration_s
                   w == set_station_state(db, c.s,
                          [media_id |-> mid, kind |-> "top_of_hour", started_ts |-> c.now_ts,
                           ends_ts |-> c.now_ts + dur, queue_json |-> << >>, queue_index |-> 0,
                           pending_break |-> flags.pending_break,
                           last_break_ts |-> flags.last_break_ts,
                           force_ident_next |-> flags.force_ident_next,
                           last_ident_ts |-> flags.last_ident_ts,
                           last_toth_slot_ts |-> slot_start_ts])
               IN  IF w.exc # "" THEN {Outcome(w.exc, db, pl, rs, NoNP)}
                   ELSE {Outcome("", w.db, insert_play(pl, c.s, mid, "top_of_hour", c.now_ts), rs,
                                 NowPlaying("top_of_hour", mid, mid, c.now_ts, c.now_ts + dur, 0,
                                            c.slot_end_ts, NullId))}
               : mid \in items }
        ELSE AdvanceBreak(c, st, flags, db, pl, rs)

\* lines 236-240: the flags carried over from the row read at line 187; reading
\* st["last_toth_slot_ts"] raises IndexError when the row does not have that key
AdvanceFlags(c, st, db, pl, rs) ==
    IF st # << >> /\ ~ HasKey(st[1], "last_toth_slot_ts")
    THEN {Outcome("IndexError", db, pl, rs, NoNP)}
    ELSE AdvanceTopOfHour(c, st,
           IF st # << >>
           THEN [pending_break |-> st[1].pending_break,
                 last_break_ts |-> OrElse(st[1].last_break_ts, 0),
                 force_ident_next |-> st[1].force_ident_next,
                 last_ident_ts |-> OrElse(st[1].last_ident_ts, 0),
                 last_toth_slot_ts |-> OrElse(st[1].last_toth_slot_ts, 0)]
           ELSE [pending_break |-> 0, last_break_ts |-> 0, force_ident_next |-> 0,
                 last_ident_ts |-> 0, last_toth_slot_ts |-> 0],
           db, pl, rs)

\* lines 189-231: continue the queue with the item at queue_index
AdvanceQueueItem(c, st, db, pl, rs) ==
    LET queue == st[1].queue_json
        idx == st[1].queue_index
        mid == queue[idx + 1]
        dur == Media[mid].duration_s
        kind == Media[mid].kind
    IN  IF ~ HasKey(st[1], "last_toth_slot_ts")
        THEN {Outcome("IndexError", db, pl, rs, NoNP)}
        ELSE
          LET w == set_station_state(db, c.s,
                     [media_id |-> mid, kind |-> kind, started_ts |-> c.now_ts,
                      ends_ts |-> c.now_ts + dur, queue_json |-> queue, queue_index |-> idx + 1,
                      pending_break |-> st[1].pending_break,
                      last_break_ts |-> OrElse(st[1].last_break_ts, 0),
                      force_ident_next |-> st[1].force_ident_next,
                      last_ident_ts |-> OrElse(st[1].last_ident_ts, 0),
                      last_toth_slot_ts |-> OrElse(st[1].last_toth_slot_ts, 0)])
          IN  IF w.exc # "" THEN {Outcome(w.exc, db, pl, rs, NoNP)}
              ELSE {Outcome("", o.db, insert_play(pl, c.s, mid, kind, c.now_ts), rs,
                            NowPlaying(kind, mid, mid, c.now_ts, c.now_ts + dur, 0,
                                       c.slot_end_ts, o.overlay))
                    : o \in overlay_if_due(c.s, w.db, st, c.entry, c.active /\ kind = "song")}

\* Scheduler._advance_station: the set of possible outcomes
advance_station(c, db, pl, rs) ==
    LET st == get_station_state(db, c.s)
    IN  IF st # << >> /\ st[1].queue_json # << >>
        THEN IF st[1].queue_index < Len(st[1].queue_json)
                /\ media_by_id(st[1].queue_json[st[1].queue_index + 1])
             THEN AdvanceQueueItem(c, st, db, pl, rs)
             ELSE \* queue exhausted -> clear
                  AdvanceFlags(c, st,
                    update_station_flags(db, c.s, [queue_json |-> << >>, queue_index |-> 0]),
                    pl, rs)
        ELSE AdvanceFlags(c, st, db, pl, rs)

-----------------------------------------------------------------------------
(* scheduler.py: public interface *)

\* variant of the validity test that gives up an item a quarter second before it ends
StillValid_early(st, now_ts) ==
    /\ st # << >>
    /\ st[1].kind # ""
    /\ st[1].kind # "noise"
    /\ OrElse(st[1].ends_ts, 0) > now_ts + 1
    /\ st[1].path # NullId

\* lines 139-166: the current item, when it is still valid
StillValid(st, now_ts) ==
    /\ st # << >>
    /\ st[1].kind # ""
    /\ st[1].kind # "noise"
    /\ OrElse(st[1].ends_ts, 0) > now_ts
    /\ st[1].path # NullId

\* variant of the overlay condition without the start window
OverlayAtStart_anyseek(kind, active, seek) == kind = "song" /\ active

\* line 151: overlays only for an audible station at the beginning of a song
OverlayAtStart(kind, active, seek) == kind = "song" /\ active /\ seek <= OverlayStartWindow

\* Scheduler.ensure_station_current: the set of possible outcomes
ensure_station_current(cv, s, now_ts, active, db, pl, rs) ==
    LET cfg == StationCfg(cv, s)
        schedule_entry == schedule_entry_for_now(cv, s, now_ts)
        tags == schedule_entry.tags
        slot_end_ts == next_slot_start_ts(now_ts)
        st == get_station_state(db, s)
    IN  IF tags = {}
        THEN {Outcome("", set_noise_state(db, s, now_ts, slot_end_ts), pl, rs,
                      NowPlaying("noise", NullId, NullId, now_ts, slot_end_ts, 0, slot_end_ts,
                                 NullId))}
        ELSE IF StillValid(st, now_ts)
        THEN LET kind == st[1].kind
                 ends == OrElse(st[1].ends_ts, 0)
                 started == OrElse(st[1].started_ts, now_ts)
                 seek == Max(0, now_ts - started)
             IN  {Outcome("", o.db, pl, rs,
                          NowPlaying(kind, st[1].path, st[1].current_media_id, started, ends,
                                     seek, slot_end_ts, o.overlay))
                  : o \in overlay_if_due(s, db, st, schedule_entry,
                                         OverlayAtStart(kind, active, seek))}
        ELSE advance_station([s |-> s, now_ts |-> now_ts, slot_end_ts |-> slot_end_ts,
                              active |-> active, entry |-> schedule_entry, cfg |-> cfg,
                              tags |-> tags], db, pl, rs)

\* variant of _maybe_mark_break_due that measures from the epoch, not from last_break_ts
maybe_mark_break_due_nolast(cv, s, now_ts, db) ==
    LET freq == StationCfg(cv, s).break_frequency_s
        st == get_station_state(db, s)
        pending == IF st # << >> THEN st[1].pending_break ELSE 0
        last_break_ts == IF st # << >> THEN OrElse(st[1].last_break_ts, 0) ELSE 0
    IN  IF freq <= 0 \/ pending # 0 THEN db
        ELSE IF now_ts >= Sec(freq)
        THEN IF st # << >>
             THEN update_station_flags(db, s, [pending_break |-> 1])
             ELSE Upsert(db, s, [DefaultRow EXCEPT !.pending_break = 1,
                                                   !.last_break_ts = last_break_ts])
        ELSE db

\* Scheduler._maybe_mark_break_due: the store afterwards
maybe_mark_break_due(cv, s, now_ts, db) ==
    LET freq == StationCfg(cv, s).break_frequency_s
        st == get_station_state(db, s)
        pending == IF st # << >> THEN st[1].pending_break ELSE 0
        last_break_ts == IF st # << >> THEN OrElse(st[1].last_break_ts, 0) ELSE 0
    IN  IF freq <= 0 \/ pending # 0 THEN db
        ELSE IF (now_ts - last_break_ts) >= Sec(freq)
        THEN IF st # << >>
             THEN update_station_flags(db, s, [pending_break |-> 1])
             ELSE Upsert(db, s, [DefaultRow EXCEPT !.pending_break = 1,
                                                   !.last_break_ts = last_break_ts])
        ELSE db

\* what `last` records of one ensure_station_current call: the arguments, the
\* exception or value returned, and the station's row and the plays log before
\* and after it
Call(active, o, db_before, pl_before, s) ==
    [active |-> active, exc |-> o.exc, np |-> o.np,
     pre |-> IF s \in DOMAIN db_before THEN <<db_before[s]>> ELSE << >>,
     post |-> IF s \in DOMAIN o.db THEN <<o.db[s]>> ELSE << >>,
     pre_plays |-> pl_before, post_plays |-> o.plays]

RECURSIVE TickFrom(_, _, _, _)
\* the loop of tick_all from the i-th station on; an exception leaves the loop
TickFrom(cv, i, now_ts, acc) ==
    IF i > Len(StationOrder) THEN {acc}
    ELSE
      LET s == StationOrder[i]
          db1 == maybe_mark_break_due(cv, s, now_ts, acc.db)
      IN  UNION {
            LET acc1 == [exc |-> o.exc, db |-> o.db, plays |-> o.plays, reserved |-> o.reserved,
                         calls |-> acc.calls @@ (s :> Call(FALSE, o, db1, acc.plays, s))]
            IN  IF o.exc # "" THEN {acc1} ELSE TickFrom(cv, i + 1, now_ts, acc1)
            : o \in ensure_station_current(cv, s, now_ts, FALSE, db1, acc.plays, acc.reserved) }

\* Scheduler.tick_all: the set of possible results
tick_all(cv, now_ts, db, pl) ==
    TickFrom(cv, 1, now_ts, [exc |-> "", db |-> db, plays |-> pl, reserved |-> {}, calls |-> << >>])

-----------------------------------------------------------------------------
(* The scheduler over a durable store *)

CursorRow(mid, started_ts, queue_json, queue_index, last_break_ts, force_ident_next, last_ident_ts) ==
    [current_media_id |-> mid, kind |-> Media[mid].kind, started_ts |-> started_ts,
     ends_ts |-> started_ts + Media[mid].duration_s, queue_json |-> queue_json,
     queue_index |-> queue_index, pending_break |-> 0, last_break_ts |-> last_break_ts,
     force_ident_next |-> force_ident_next, last_ident_ts |-> last_ident_ts,
     last_toth_slot_ts |-> 0]

\* station_state rows of KA that the store may hold when the scheduler is
\* constructed (the store is durable: db.connect opens and migrates an existing
\* file, Scheduler.__init__ leaves station_state alone)
StoredRows ==
    \* a song that starts now, after a break or not
       {CursorRow(2, T0, << >>, 0, 0, 0, 0), CursorRow(2, T0, << >>, 0, T0 - 2, 0, 0),
        CursorRow(2, T0, << >>, 0, T0 - 2, 1, 0)}
    \* a song under way, a second in, with a between-song ident queued behind it
    \cup {CursorRow(1, T0 - Sec(1), <<1, 3>>, 1, 0, 0, T0 - Sec(1))}
    \* the last commercial of a break, which ends now
    \cup {CursorRow(4, T0 - 4, <<3, 4>>, 2, T0 - 6, 1, 0)}
    \* the ident of a break, a commercial still queued
    \cup {CursorRow(3, T0 - 1, <<3, 4>>, 1, T0 - 1, 1, 0)}
    \* a filler commercial that runs past the hour (within the slop), one more queued
    \cup {CursorRow(5, T0, <<3, 5, 4>>, 2, 0, 0, 0)}
    \* noise until the end of the slot
    \cup {[DefaultRow EXCEPT !.kind = "noise", !.started_ts = T0 - 4, !.ends_ts = Boundary]}

\* the plays row of the item a stored cursor points at
StoredPlay(s, row) ==
    IF row.current_media_id = NullId THEN << >>
    ELSE <<[station |-> s, media_id |-> row.current_media_id, kind |-> row.kind,
            started_ts |-> row.started_ts]>>

\* no function application recorded
NoCall == [name |-> "", done |-> FALSE]

\* no queue build recorded
NoBuild ==
    [ident |-> << >>, commercials |-> << >>, target_s |-> 0, queue |-> << >>, built |-> FALSE]

Init ==
    /\ clock = T0
    /\ cfg_var \in CfgVars
    /\ \/ station_state = << >> /\ plays = << >>
       \/ \E row \in StoredRows :
            /\ station_state = ("KA" :> row)
            /\ plays = StoredPlay("KA", row)
    /\ reserved = {}
    /\ last = [op |-> "init", now_ts |-> T0, calls |-> << >>]
    /\ overlay_song = [s \in Stations |-> NullTs]
    /\ bq = NoBuild
    /\ fn = NoCall

\* the song instance an overlay was last returned for, after the calls of one step
OverlaySongAfter(calls) ==
    [s \in Stations |->
       IF s \in DOMAIN calls /\ calls[s].np.ident_overlay # NullId
       THEN calls[s].np.started_ts ELSE overlay_song[s]]

\* one call of ensure_station_current(s, now_ts, active=active), from tune() or the main loop
Ensure(s, active) ==
    \E now_ts \in Times :
      /\ now_ts >= clock
      /\ \E o \in ensure_station_current(cfg_var, s, now_ts, active, station_state, plays, reserved) :
           /\ clock' = now_ts
           /\ station_state' = o.db
           /\ plays' = o.plays
           /\ reserved' = o.reserved
           /\ last' = [op |-> "ensure", now_ts |-> now_ts,
                       calls |-> (s :> Call(active, o, station_state, plays, s))]
           /\ overlay_song' = OverlaySongAfter(last'.calls)
      /\ UNCHANGED <<cfg_var, bq, fn>>

\* one call of tick_all(now_ts), from the main loop
TickAll ==
    \E now_ts \in Times :
      /\ now_ts >= clock
      /\ \E r \in tick_all(cfg_var, now_ts, station_state, plays) :
           /\ clock' = now_ts
           /\ station_state' = r.db
           /\ plays' = r.plays
           /\ reserved' = r.reserved
           /\ last' = [op |-> "tick_all", now_ts |-> now_ts, calls |-> r.calls]
           /\ overlay_song' = OverlaySongAfter(r.calls)
      /\ UNCHANGED <<cfg_var, bq, fn>>

Next ==
    \/ TickAll
    \/ \E s \in Stations, active \in BOOLEAN : Ensure(s, active)

Spec == Init /\ [][Next]_vars

-----------------------------------------------------------------------------
(* Properties of the scheduler.  They speak of the calls of the last step:     *)
(* last.calls[s] is the ensure_station_current call made for s, at last.now_ts *)

\* the slot of now_ts has no schedule entry for s, or one with empty tags
NoiseSlot(s, now_ts) == schedule_entry_for_now(cfg_var, s, now_ts).tags = {}

\* the row the call found is a cursor that is still valid at now_ts
FoundValid(k, now_ts) ==
    /\ k.pre # << >>
    /\ k.pre[1].kind \notin {"", "noise"}
    /\ k.pre[1].ends_ts > now_ts
    /\ k.pre[1].current_media_id \in MediaIds

\* C1: in a slot without tags, ensure_station_current returns noise from now_ts
\* to the next hour boundary, without path, media id, seek or overlay, whatever
\* the cursor was and whatever active is, and leaves the row with kind noise, no
\* current media, no queue and queue_index 0.
C1_NoiseSlotGivesNoise ==
    \A s \in DOMAIN last.calls :
      NoiseSlot(s, last.now_ts) =>
        LET k == last.calls[s]
            slot_end_ts == next_slot_start_ts(last.now_ts)
        IN  /\ k.exc = ""
            /\ k.np = NowPlaying("noise", NullId, NullId, last.now_ts, slot_end_ts, 0,
                                 slot_end_ts, NullId)
            /\ k.post # << >>
            /\ k.post[1].kind = "noise"
            /\ k.post[1].current_media_id = NullId
            /\ k.post[1].queue_json = << >>
            /\ k.post[1].queue_index = 0

\* an active call in a noise slot that found a still-valid item with an unfinished queue
C1_Witness ==
    \E s \in DOMAIN last.calls :
      /\ NoiseSlot(s, last.now_ts)
      /\ last.calls[s].active
      /\ FoundValid(last.calls[s], last.now_ts)
      /\ last.calls[s].pre[1].queue_index < Len(last.calls[s].pre[1].queue_json)
      /\ last.calls[s].post[1].kind = "noise"

\* the cursor columns C2 speaks of
ContinuityColumns ==
    {"current_media_id", "kind", "started_ts", "ends_ts", "queue_json", "queue_index",
     "pending_break", "last_break_ts"}

\* C2: in a slot with tags, a call that finds a non-noise cursor with
\* ends_ts > now_ts and a media path returns that item with
\* seek_s = now_ts - started_ts, appends nothing to plays and leaves the eight
\* cursor columns as they were, for both values of active.
C2_ContinuityOnRetune ==
    \A s \in DOMAIN last.calls :
      LET k == last.calls[s]
      IN  (~ NoiseSlot(s, last.now_ts) /\ FoundValid(k, last.now_ts)) =>
            /\ k.exc = ""
            /\ k.np.media_id = k.pre[1].current_media_id
            /\ k.np.path = k.pre[1].current_media_id
            /\ k.np.kind = k.pre[1].kind
            /\ k.np.started_ts = k.pre[1].started_ts
            /\ k.np.ends_ts = k.pre[1].ends_ts
            /\ k.np.seek_s = last.now_ts - k.pre[1].started_ts
            /\ k.post_plays = k.pre_plays
            /\ k.post # << >>
            /\ \A c \in ContinuityColumns : k.post[1][c] = k.pre[1][c]

\* an active call that tunes into a song a quarter second in and consumes the forced overlay
C2_Witness ==
    \E s \in DOMAIN last.calls :
      /\ ~ NoiseSlot(s, last.now_ts)
      /\ FoundValid(last.calls[s], last.now_ts)
      /\ last.calls[s].active
      /\ last.calls[s].np.seek_s > 0
      /\ last.calls[s].pre[1].force_ident_next = 1
      /\ last.calls[s].post[1].force_ident_next = 0

\* the call left the cursor on another item than it found
Moved(k) ==
    /\ k.post # << >>
    /\ \/ k.pre = << >>
       \/ <<k.pre[1].current_media_id, k.pre[1].kind, k.pre[1].started_ts>>
            # <<k.post[1].current_media_id, k.post[1].kind, k.post[1].started_ts>>

\* C3: every call returns what the station plays; the plays log grows by exactly
\* one row (the item, started at now_ts) when the call moved the cursor to a newly
\* started non-noise item, and by none when it moved to noise or returned the
\* current item.
C3_OnePlayPerMove ==
    \A s \in DOMAIN last.calls :
      LET k == last.calls[s]
      IN  /\ k.exc = ""
          /\ IF Moved(k) /\ k.np.kind # "noise"
             THEN k.post_plays = Append(k.pre_plays,
                                   [station |-> s, media_id |-> k.np.media_id,
                                    kind |-> k.np.kind, started_ts |-> last.now_ts])
             ELSE k.post_plays = k.pre_plays

\* C4: for one song instance (one started_ts of one station) at most one call
\* returns an overlay: no call returns an overlay for the instance an overlay was
\* already returned for.
C4_OneOverlayPerSong ==
    [][\A s \in DOMAIN last'.calls :
         last'.calls[s].np.ident_overlay # NullId =>
           last'.calls[s].np.started_ts # overlay_song[s]]_vars

\* C5: a returned overlay implies the call was active, the item is a song and
\* seek_s <= 0.25.
C5_OverlayOnlyAtActiveSongStart ==
    \A s \in DOMAIN last.calls :
      LET k == last.calls[s]
      IN  k.np.ident_overlay # NullId =>
            /\ k.active
            /\ k.np.kind = "song"
            /\ k.np.seek_s <= OverlayStartWindow

\* an overlay returned at the edge of the start window
C5_Witness ==
    \E s \in DOMAIN last.calls :
      /\ last.calls[s].np.ident_overlay # NullId
      /\ last.calls[s].np.seek_s = OverlayStartWindow

\* every call of the step was made with active=false
Background(calls) == \A s \in DOMAIN calls : ~ calls[s].active

\* C6: tick_all and ensure_station_current(active=false) never turn
\* force_ident_next from 1 to 0 and never return an overlay.
C6_BackgroundKeepsForcedOverlay ==
    [][Background(last'.calls) =>
         /\ \A s \in DOMAIN last'.calls : last'.calls[s].np.ident_overlay = NullId
         /\ \A s \in DOMAIN station_state :
              station_state[s].force_ident_next = 1 =>
                /\ s \in DOMAIN station_state'
                /\ station_state'[s].force_ident_next = 1]_vars

\* tick_all passed over a song that starts now with the forced overlay still pending
C6_Witness ==
    /\ last.op = "tick_all"
    /\ "KA" \in DOMAIN last.calls
    /\ last.calls["KA"].np.kind = "song"
    /\ last.calls["KA"].np.seek_s = 0
    /\ last.calls["KA"].pre[1].force_ident_next = 1
    /\ station_state["KA"].force_ident_next = 1

\* the row of s, or the column defaults when it has none
RowOrDefault(db, s) == IF s \in DOMAIN db THEN db[s] ELSE DefaultRow

\* C7: tick_all(now_ts) raises pending_break from 0 to 1 only for a station with
\* break_frequency_s > 0 and only when now_ts - last_break_ts >= break_frequency_s:
\* not within break_frequency_s of the break that set last_break_ts, and never
\* when break_frequency_s = 0.
C7_BreakNotReRaisedEarly ==
    [][last'.op = "tick_all" =>
         \A s \in DOMAIN station_state' :
           (RowOrDefault(station_state, s).pending_break = 0
              /\ station_state'[s].pending_break = 1) =>
             /\ StationCfg(cfg_var, s).break_frequency_s > 0
             /\ last'.now_ts - RowOrDefault(station_state, s).last_break_ts
                  >= Sec(StationCfg(cfg_var, s).break_frequency_s)]_vars

\* a tick_all less than break_frequency_s after the last break, which leaves pending_break 0
C7_Witness ==
    /\ last.op = "tick_all"
    /\ "KA" \in DOMAIN last.calls
    /\ StationCfg(cfg_var, "KA").break_frequency_s > 0
    /\ station_state["KA"].last_break_ts > 0
    /\ last.now_ts - station_state["KA"].last_break_ts
         < Sec(StationCfg(cfg_var, "KA").break_frequency_s)
    /\ station_state["KA"].pending_break = 0

\* the call went into _advance_station and reached the break branch: slot with
\* tags, no valid item, no unfinished queue, no top-of-hour jingle configured
ReachesBreakBranch(s, k, now_ts) ==
    /\ ~ NoiseSlot(s, now_ts)
    /\ ~ FoundValid(k, now_ts)
    /\ k.pre # << >>
    /\ k.pre[1].queue_index >= Len(k.pre[1].queue_json)
    /\ StationCfg(cfg_var, s).top_of_the_hour = ""

\* C8: an advance that finds pending_break = 1 with break_length_s > 0, no
\* unfinished queue and no jingle due, on a station whose builder gives a
\* non-empty queue, makes the first queue item current at now_ts with
\* queue_index 1, pending_break 0, last_break_ts = now_ts, force_ident_next 1,
\* and returns it without overlay.
C8_BreakStart ==
    \A s \in DOMAIN last.calls :
      LET k == last.calls[s]
      IN  (/\ ReachesBreakBranch(s, k, last.now_ts)
           /\ k.pre[1].pending_break = 1
           /\ StationCfg(cfg_var, s).break_length_s > 0
           /\ station_media_pool(s, "commercial") # {}) =>
            /\ k.exc = ""
            /\ k.post # << >>
            /\ k.post[1].queue_json # << >>
            /\ k.post[1].current_media_id = k.post[1].queue_json[1]
            /\ k.np.media_id = k.post[1].current_media_id
            /\ k.np.started_ts = last.now_ts
            /\ k.post[1].started_ts = last.now_ts
            /\ k.post[1].queue_index = 1
            /\ k.post[1].pending_break = 0
            /\ k.post[1].last_break_ts = last.now_ts
            /\ k.post[1].force_ident_next = 1
            /\ k.np.ident_overlay = NullId

\* C10: with force_ident_next = 1 left by a break and overlay media in the slot's
\* overlays_dir, an active call at the start of the first song after the break
\* returns an overlay whatever overlays_probability is and leaves
\* force_ident_next 0, both when the song was already started in the background
\* and when the active call itself starts it after the break's last item.
C10_ForcedOverlayAfterBreak ==
    \A s \in DOMAIN last.calls :
      LET k == last.calls[s]
          entry == schedule_entry_for_now(cfg_var, s, last.now_ts)
          forced == /\ k.active
                    /\ k.pre # << >>
                    /\ k.pre[1].force_ident_next = 1
                    /\ k.pre[1].pending_break = 0
                    /\ station_media_filtered(s, "overlay", entry.overlays_dir) # {}
          started_in_background ==
                    /\ FoundValid(k, last.now_ts)
                    /\ k.pre[1].kind = "song"
                    /\ k.pre[1].started_ts = last.now_ts
          starts_directly ==
                    /\ ReachesBreakBranch(s, k, last.now_ts)
                    /\ k.pre[1].kind = "commercial"
                    /\ pick_best_fit_song_station_seeded(
                         entry.tags, next_slot_start_ts(last.now_ts) - last.now_ts,
                         station_state, {}) # {NullId}
      IN  (forced /\ (started_in_background \/ starts_directly)) =>
            /\ k.exc = ""
            /\ k.np.kind = "song"
            /\ k.np.seek_s = 0
            /\ k.np.ident_overlay # NullId
            /\ k.post[1].force_ident_next = 0

-----------------------------------------------------------------------------
(* The queue builder on its own: _build_ident_plus_commercials_queue as called *)
(* for a break (lines 275-278), over every small ident and commercial pool.    *)
(* The ident has id 0, the commercials are numbered in their shuffled order.   *)

\* duration_s values of the drawn media, whole seconds; 0 stands for "at most 0.1 s"
Durations == {Sec(d) : d \in 0..MaxDur}

\* the ident random_station_media draws: none, or one of any duration
DrawnIdents == {<< >>} \cup {<< <<0, d>> >> : d \in Durations}

\* the shuffled commercials: any sequence of up to MaxPool durations
ShuffledPools ==
    UNION {{[i \in 1..n |-> <<i, durs[i]>>] : durs \in [1..n -> Durations]} : n \in 0..MaxPool}

\* float(cfg.break_length_s) of a station that has breaks
BreakLengths == {Sec(t) : t \in 1..MaxTarget}

InitQueue ==
    /\ clock = T0
    /\ cfg_var = CfgVar(0, 0, "")
    /\ station_state = << >>
    /\ plays = << >>
    /\ reserved = {}
    /\ last = [op |-> "init", now_ts |-> T0, calls |-> << >>]
    /\ overlay_song = [s \in Stations |-> NullTs]
    /\ fn = NoCall
    /\ \E ident \in DrawnIdents, commercials \in ShuffledPools, target_s \in BreakLengths :
         bq = [ident |-> ident, commercials |-> commercials, target_s |-> target_s,
               queue |-> << >>, built |-> FALSE]

\* queue_ids = self._build_ident_plus_commercials_queue(..., slop_s=self.break_slop_s, ...)
BuildBreakQueue ==
    /\ ~ bq.built
    /\ bq' = [bq EXCEPT !.queue = BuildQueue(bq.ident, bq.commercials, bq.target_s, break_slop_s),
                        !.built = TRUE]
    /\ UNCHANGED <<clock, station_state, plays, reserved, cfg_var, last, overlay_song, fn>>

NextQueue == BuildBreakQueue

SpecQueue == InitQueue /\ [][NextQueue]_vars

\* duration of the queued item with this id
QueuedDuration(id) == IF id = 0 THEN bq.ident[1][2] ELSE bq.commercials[id][2]

RECURSIVE TotalFrom(_, _)
\* total duration of the items of q from position i on
TotalFrom(q, i) == IF i > Len(q) THEN 0 ELSE QueuedDuration(q[i]) + TotalFrom(q, i + 1)

\* total duration of the queue built
QueueTotal == TotalFrom(bq.queue, 1)

\* the commercials the builder left out
LeftOut == {i \in 1..Len(bq.commercials) : i \notin Elems(bq.queue)}

\* C9 as stated: the total duration of a break's queue lies in
\* [break_length_s, break_length_s + break_slop_s] for every ident and commercial pool.
C9_BreakTotalInRange ==
    bq.built => (bq.target_s <= QueueTotal /\ QueueTotal <= bq.target_s + break_slop_s)

\* C9, amended: the total duration of a break's queue is at most
\* break_length_s + break_slop_s unless the queue is the drawn ident alone; it has
\* no lower bound, but the fill is greedy: every commercial left out lasts at most
\* 0.1 s or would take the total past break_length_s + break_slop_s.
C9_BreakTotalBounded ==
    bq.built =>
      /\ \/ QueueTotal <= bq.target_s + break_slop_s
         \/ (bq.ident # << >> /\ bq.queue = <<0>>)
      /\ \A i \in LeftOut :
           \/ TooShort(bq.commercials[i][2])
           \/ QueueTotal + bq.commercials[i][2] > bq.target_s + break_slop_s

\* a built queue shorter than break_length_s that holds a commercial and leaves one out
C9_Witness ==
    /\ bq.built
    /\ QueueTotal < bq.target_s
    /\ Len(bq.queue) >= 2
    /\ \E i \in LeftOut : ~ TooShort(bq.commercials[i][2])

-----------------------------------------------------------------------------
(* Breaks, jingles and the order of items *)

\* the queue the call found still has items to play
QueueUnfinished(k) == k.pre # << >> /\ k.pre[1].queue_index < Len(k.pre[1].queue_json)

\* C11: a call that finds pending_break = 1 while the current item is still
\* valid, or while items of the queue remain unplayed, does not begin the break:
\* pending_break stays 1 and last_break_ts stays what it was.
C11_BreakWaitsForItemEnd ==
    \A s \in DOMAIN last.calls :
      LET k == last.calls[s]
      IN  (/\ k.pre # << >>
           /\ k.pre[1].pending_break = 1
           /\ (FoundValid(k, last.now_ts) \/ QueueUnfinished(k))) =>
            /\ k.post # << >>
            /\ k.post[1].pending_break = 1
            /\ k.post[1].last_break_ts = k.pre[1].last_break_ts
            /\ k.post[1].force_ident_next <= k.pre[1].force_ident_next

\* an active read of a song that starts now, with the break marked due in the
\* tick before and an overlay returned
C11_Witness ==
    \E s \in DOMAIN last.calls :
      /\ last.calls[s].active
      /\ FoundValid(last.calls[s], last.now_ts)
      /\ ~ NoiseSlot(s, last.now_ts)
      /\ last.calls[s].pre[1].pending_break = 1
      /\ last.calls[s].np.ident_overlay # NullId
      /\ station_state[s].pending_break = 1

\* C12: at most one top_of_hour item is started per station and hour slot: an
\* advance that reaches the jingle branch (no valid item, no unfinished queue,
\* a top_of_the_hour directory with media) returns; it starts the jingle and
\* stores last_toth_slot_ts = start of the slot when the stored value differs,
\* and starts no jingle when the stored value is this slot's start; and no call
\* changes a stored last_toth_slot_ts except to stamp the current slot.
C12_TopOfHourOncePerSlot ==
    \A s \in DOMAIN last.calls :
      LET k == last.calls[s]
          slot_start_ts == current_slot_start_ts(last.now_ts)
          stored == IF k.pre # << >> THEN k.pre[1].last_toth_slot_ts ELSE 0
          toth_dir == StationCfg(cfg_var, s).top_of_the_hour
      IN  /\ (/\ ~ NoiseSlot(s, last.now_ts)
              /\ ~ FoundValid(k, last.now_ts)
              /\ ~ QueueUnfinished(k)
              /\ toth_dir # ""
              /\ station_media_filtered(s, "top_of_hour", toth_dir) # {}) =>
               /\ k.exc = ""
               /\ k.post # << >>
               /\ k.post[1].last_toth_slot_ts = slot_start_ts
               /\ (k.np.kind = "top_of_hour") = (stored # slot_start_ts)
          /\ k.post # << >> => k.post[1].last_toth_slot_ts \in {stored, slot_start_ts}

-----------------------------------------------------------------------------
(* Song selection on its own: _pick_best_fit_song_station_seeded as called at  *)
(* lines 317-325, over the tags, the remaining time and the ids to avoid.      *)

\* largest remaining time (quarter seconds) drawn for the song selection
MaxRemaining == 12

\* the scheduler's state, idle, while a function is applied on its own
SchedulerIdle ==
    /\ clock = T0
    /\ cfg_var = CfgVar(0, 0, "")
    /\ station_state = << >>
    /\ plays = << >>
    /\ reserved = {}
    /\ last = [op |-> "init", now_ts |-> T0, calls |-> << >>]
    /\ overlay_song = [s \in Stations |-> NullTs]
    /\ bq = NoBuild

SchedulerUnchanged ==
    UNCHANGED <<clock, station_state, plays, reserved, cfg_var, last, overlay_song, bq>>

\* songs of the library
Songs == {m \in MediaIds : Media[m].kind = "song"}

InitPick ==
    /\ SchedulerIdle
    /\ \E tags \in SUBSET {"pop", "rock"}, max_duration \in 0..MaxRemaining,
          avoid_ids \in SUBSET Songs :
         fn = [name |-> "pick_best_fit_song", tags |-> tags, max_duration |-> max_duration,
               avoid_ids |-> avoid_ids, song |-> NullId, done |-> FALSE]

\* song = self._pick_best_fit_song_station_seeded(tags=tags, max_duration=remaining, ...)
PickSong ==
    /\ ~ fn.done
    /\ \E song \in pick_best_fit_song_station_seeded(fn.tags, fn.max_duration, << >>, fn.avoid_ids) :
         fn' = [fn EXCEPT !.song = song, !.done = TRUE]
    /\ SchedulerUnchanged

NextPick == PickSong

SpecPick == InitPick /\ [][NextPick]_vars

\* C13: the song the best-fit branch selects has a duration of at most
\* slot_end_ts - now_ts (so now_ts + duration is not past the hour boundary) and
\* carries one of the slot's tags; with slot_end_ts - now_ts <= 1.0 s or no tags
\* nothing is selected.
C13_SongFitsRemaining ==
    fn.done =>
      /\ fn.song # NullId =>
           /\ Media[fn.song].kind = "song"
           /\ Media[fn.song].tag \in fn.tags
           /\ Media[fn.song].duration_s <= fn.max_duration
      /\ (fn.max_duration <= Sec(1) \/ fn.tags = {}) => fn.song = NullId

\* a song selected that fills the remaining time exactly, a shorter one being available
C13_Witness ==
    /\ fn.done
    /\ fn.song # NullId
    /\ Media[fn.song].duration_s = fn.max_duration
    /\ \E m \in Songs : Media[m].duration_s < fn.max_duration /\ Media[m].tag \in fn.tags

\* the transitions of the cursor kind the state machine lists
ListedTransitions ==
    ({"noise"} \X {"song", "ident", "commercial", "top_of_hour"})
    \cup ({"song"} \X {"ident", "commercial", "top_of_hour", "song", "noise"})
    \cup ({"commercial"} \X {"commercial", "song", "ident", "noise"})
    \cup ({"ident"} \X {"commercial", "song", "noise"})
    \cup ({"top_of_hour"} \X {"song", "ident", "commercial", "noise"})

\* the call replaced a started item or noise period by the next one (a noise
\* period written again over a noise period is the same period)
Transition(k) ==
    /\ Moved(k)
    /\ k.pre # << >>
    /\ k.pre[1].kind # ""
    /\ ~ (k.pre[1].kind = "noise" /\ k.post[1].kind = "noise")

C15_TickReplacesEndedItem ==
    last.op = "tick_all" =>
      \A s \in Stations :
        /\ s \in DOMAIN station_state
        /\ \/ station_state[s].ends_ts > last.now_ts
           \/ station_state[s].started_ts = last.now_ts

\* C16: tick_all(now_ts) gives every configured station a station_state row,
\* and a non-noise item an advance started at now_ts ends after now_ts, so the
\* next tick finds it still valid.
C16_TickLeavesRowAndCurrentItem ==
    last.op = "tick_all" =>
      \A s \in Stations :
        /\ s \in DOMAIN station_state
        /\ s \in DOMAIN last.calls
        /\ last.calls[s].exc = ""
        /\ (Moved(last.calls[s]) /\ last.calls[s].np.kind # "noise") =>
             /\ station_state[s].ends_ts > last.now_ts
             /\ station_state[s].current_media_id = last.calls[s].np.media_id

\* the ensure_station_current call of the last step, when it was one: <<station, call>>
LastEnsure(l) == IF l.op = "ensure" THEN {<<s, l.calls[s]>> : s \in DOMAIN l.calls} ELSE {}

\* C17: after ensure_station_current(s, t, active) has returned, a second
\* ensure_station_current(s, t, active) with the same t leaves the whole row of s
\* as the first call left it and appends no plays row.
C17_SameInstantIdempotent ==
    [][\A a \in LastEnsure(last), b \in LastEnsure(last') :
         (/\ a[1] = b[1]
          /\ last.now_ts = last'.now_ts
          /\ a[2].active = b[2].active
          /\ a[2].exc = "") =>
           /\ b[2].post = a[2].post
           /\ station_state' = station_state
           /\ plays' = plays]_vars

\* a second active call at the instant a first call wrote the noise period
C17_Witness ==
    \E s \in DOMAIN last.calls :
      /\ last.op = "ensure"
      /\ last.calls[s].active
      /\ last.calls[s].exc = ""
      /\ last.calls[s].pre # << >>
      /\ last.calls[s].pre[1].kind = "noise"
      /\ last.calls[s].pre[1].started_ts = last.now_ts
      /\ last.calls[s].post = last.calls[s].pre

-----------------------------------------------------------------------------
(* The per-station generator: self._rng[name] = random.Random(base ^          *)
(* run_entropy) (lines 84-90) and the calls that consume it. Two runs of one   *)
(* station share the seed, hence the stream of numbers; each run keeps its own *)
(* position in it.                                                             *)

\* most numbers one run takes from the station's generator
MaxDraws == 3

\* most numbers the other stations' generators hand out in one run
MaxOther == 1

\* a number of the stream: the lowest or the highest the call can return
DrawValues == {0, 1}

\* the streams a seed can give
Streams == [1..MaxDraws -> DrawValues]

Draw(stream, i) == stream[((i - 1) % MaxDraws) + 1]

\* variant with one generator shared by all stations
StreamPos_shared(own, other) == own + other

\* rng = self._rng[station_name]: the position in the station's stream counts the
\* station's own draws only
StreamPos(own, other) == own

\* rng.uniform(0.0, hi)
Uniform(draw, hi) == draw * hi

\* rng.choice(seq)
Choice(draw, seq) == seq[IF draw = 0 THEN 1 ELSE Len(seq)]

\* _pick_best_fit_song_station_seeded with the generator's numbers made explicit:
\* the song returned (NullId for None) and the numbers taken
seeded_pick(stream, pos, tags, max_duration, avoid_ids) ==
    IF max_duration <= Sec(1) \/ tags = {} THEN [song |-> NullId, draws |-> 0]
    ELSE LET limit == Max(Sec(1), max_duration - Uniform(Draw(stream, pos + 1), DurationJitter))
             rows0 == SongRows(tags, limit)
         IN  IF rows0 = << >> THEN [song |-> NullId, draws |-> 1]
             ELSE [song |-> Choice(Draw(stream, pos + 2),
                                   OrderByDurationDesc(PickFrom(rows0, avoid_ids))),
                   draws |-> 2]

\* media ids on the cursors of the other stations: none, or song 1
OthersPlaying == {{}, {1}}

\* remaining time of the slot at the selections
SeededRemaining == Sec(13)

RunIds == {"a", "b"}

NoRun == [pos |-> 0, other |-> 0, picks |-> << >>, inputs |-> << >>]

InitSeeded ==
    /\ SchedulerIdle
    /\ \E stream \in Streams :
         fn = [name |-> "seeded", stream |-> stream, runs |-> [r \in RunIds |-> NoRun],
               done |-> FALSE]

\* a song selection of the station in one run (lines 317-325)
SeededSelect ==
    /\ \E r \in RunIds, avoid_ids \in OthersPlaying :
         LET run == fn.runs[r]
             res == seeded_pick(fn.stream, StreamPos(run.pos, run.other), {"pop"},
                                SeededRemaining, avoid_ids)
         IN  /\ run.pos + 2 <= MaxDraws
             /\ fn' = [fn EXCEPT !.runs[r] =
                         [run EXCEPT !.pos = run.pos + res.draws,
                                     !.picks = Append(run.picks, res.song),
                                     !.inputs = Append(run.inputs, <<run.pos, avoid_ids>>)]]
    /\ SchedulerUnchanged

\* an active call at the start of a song, not forced, with overlays configured:
\* "self._rng[station_name].random() > prob" (line 489) takes one number
SeededOverlayDraw ==
    /\ \E r \in RunIds :
         /\ fn.runs[r].pos + 1 <= MaxDraws
         /\ fn' = [fn EXCEPT !.runs[r].pos = @ + 1]
    /\ SchedulerUnchanged

\* another station selects or draws: its own generator hands out a number
OtherStationDraw ==
    /\ \E r \in RunIds :
         /\ fn.runs[r].other < MaxOther
         /\ fn' = [fn EXCEPT !.runs[r].other = @ + 1]
    /\ SchedulerUnchanged

NextSeeded == SeededSelect \/ SeededOverlayDraw \/ OtherStationDraw

SpecSeeded == InitSeeded /\ [][NextSeeded]_vars

-----------------------------------------------------------------------------
(* radio.py: the dial. Frequencies are tenths of a MHz; the floats the code    *)
(* holds are the doubles nearest to them (float(cfg.freq), round(v, 1)), so a  *)
(* frequency d stands for the double nearest to d / 10. All frequencies lie in *)
(* [64, 128) MHz, where the last place of a double is 2^-46 MHz.               *)

\* lowest frequency of the modelled part of the band: 90.0 MHz
BandLow == 90 * 10

\* width of the modelled part of the band, in tenths of a MHz
BandSpan == 20

\* most stations loaded
MaxStations == 3

Band == BandLow .. (BandLow + BandSpan)

\* excess of the double nearest to d / 10 over d / 10, in tenths of the last place:
\* d * 2^46 leaves the remainder (4 * d) % 10 on division by 10 and is rounded to
\* the nearest integer
Err10(d) ==
    LET r == (4 * d) % 10
    IN  IF r < 5 THEN 0 - r ELSE 10 - r

\* the significand of that double (an integer number of last places), modulo 4
Significand4(d) ==
    LET q == (24 * d) % 40
    IN  ((q \div 10) + (IF q % 10 < 5 THEN 0 ELSE 1)) % 4

\* rounding of the sum of two doubles of [64, 128), which has half their precision:
\* an odd sum of significands lies half way and goes to the even neighbour
SumAdjust(a, b) ==
    LET s == (Significand4(a) + Significand4(b)) % 4
    IN  IF s % 2 = 0 THEN 0 ELSE IF s = 1 THEN 0 - 1 ELSE 1

\* excess of twice (a + b) / 2.0 over (a + b) / 10, in tenths of the last place
MidErr20(a, b) == Err10(a) + Err10(b) + 10 * SumAdjust(a, b)

\* variant that sends the dial on the midpoint to the lower station
FloatLess_orequal(freq, mid) ==
    \/ 2 * freq < mid[1] + mid[2]
    \/ (2 * freq = mid[1] + mid[2] /\ 2 * Err10(freq) <= MidErr20(mid[1], mid[2]))

\* "freq < m" for the midpoint m of the stations at mid[1] and mid[2]
FloatLess(freq, mid) ==
    \/ 2 * freq < mid[1] + mid[2]
    \/ (2 * freq = mid[1] + mid[2] /\ 2 * Err10(freq) < MidErr20(mid[1], mid[2]))

RECURSIVE SortAsc(_)
\* sorted(..., key=lambda x: x[1])
SortAsc(S) ==
    IF S = {} THEN << >>
    ELSE LET lo == CHOOSE x \in S : \A y \in S : x <= y
         IN  <<lo>> \o SortAsc(S \ {lo})

\* sorted_stations: the stations, each known by its frequency, in ascending order;
\* an empty configuration raises RuntimeError
sorted_stations(cfgs) ==
    IF cfgs = {} THEN [exc |-> "RuntimeError", sts |-> << >>]
    ELSE [exc |-> "", sts |-> SortAsc(cfgs)]

\* midpoints: (sts[i] + sts[i + 1]) / 2.0, kept as the pair it is computed from
midpoints(sts) ==
    IF Len(sts) < 2 THEN << >>
    ELSE [i \in 1..(Len(sts) - 1) |-> <<sts[i], sts[i + 1]>>]

RECURSIVE NearestFrom(_, _, _, _)
\* the loop of nearest_station from index i on
NearestFrom(freq, sts, mids, i) ==
    IF i > Len(mids) THEN sts[Len(sts)]
    ELSE IF FloatLess(freq, mids[i]) THEN sts[i]
    ELSE NearestFrom(freq, sts, mids, i + 1)

nearest_station(freq, sts, mids) ==
    IF mids = << >> THEN sts[1] ELSE NearestFrom(freq, sts, mids, 1)

\* the sets of at most MaxStations station frequencies
StationSets ==
    UNION {{{x[i] : i \in 1..n} : x \in [1..n -> Band]} : n \in 0..MaxStations}

InitDial ==
    /\ SchedulerIdle
    /\ \E cfgs \in StationSets, freq \in Band :
         fn = [name |-> "nearest_station", cfgs |-> cfgs, freq |-> freq,
               exc |-> "", station |-> 0, done |-> FALSE]

\* Radio.__init__ (lines 91-92) followed by the lookup in Radio.tune (line 150)
Nearest ==
    /\ ~ fn.done
    /\ LET sorted == sorted_stations(fn.cfgs)
       IN  IF sorted.exc # "" THEN fn' = [fn EXCEPT !.exc = sorted.exc, !.done = TRUE]
           ELSE fn' = [fn EXCEPT !.done = TRUE,
                          !.station = nearest_station(fn.freq, sorted.sts, midpoints(sorted.sts))]
    /\ SchedulerUnchanged

NextDial == Nearest

SpecDial == InitDial /\ [][NextDial]_vars

Abs(x) == IF x < 0 THEN 0 - x ELSE x

\* two stations next to each other on the band, with the dial half way
DialOnMidpoint(a, b) ==
    /\ a \in fn.cfgs /\ b \in fn.cfgs /\ a < b
    /\ \A s \in fn.cfgs : ~ (a < s /\ s < b)
    /\ 2 * fn.freq = a + b

\* C19: nearest_station returns a station that minimises |freq - station.freq|
\* and, with the dial on the midpoint of two adjacent stations, the higher one.
C19_NearestIsArgminTiesHigher ==
    (fn.done /\ fn.exc = "") =>
      /\ fn.station \in fn.cfgs
      /\ \A s \in fn.cfgs : Abs(fn.freq - fn.station) <= Abs(fn.freq - s)
      /\ \A a, b \in fn.cfgs : DialOnMidpoint(a, b) => fn.station = b

\* C20 as stated: the dial on the midpoint of two adjacent stations maps to the
\* lower-frequency one (stations at 90.0 and 92.0, dial at 91.0: 90.0).
C20_MidpointMapsLower ==
    (fn.done /\ fn.exc = "") =>
      \A a, b \in fn.cfgs : DialOnMidpoint(a, b) => fn.station = a

\* the frequency is a multiple of 0.5 MHz, which a double holds exactly
Representable(d) == d % 5 = 0

\* C20 (amended): with the dial on the midpoint of two adjacent stations, all three
\* frequencies held exactly, the higher-frequency station is returned (stations at
\* 90.0 and 92.0, dial at 91.0: 92.0).
C20_ExactMidpointMapsHigher ==
    (fn.done /\ fn.exc = "") =>
      \A a, b \in fn.cfgs :
         (DialOnMidpoint(a, b) /\ Representable(a) /\ Representable(b) /\ Representable(fn.freq))
           => fn.station = b

\* stations at 90.0 and 92.0, the dial at 91.0, 92.0 returned
C20_Witness ==
    /\ fn.done
    /\ fn.cfgs = {900, 920}
    /\ fn.freq = 910
    /\ fn.station = 920

-----------------------------------------------------------------------------
(* radio.py: the signal strength. Windows and deltas are tenths of a MHz. A    *)
(* delta is the double v / 10 + e * u, u being the rounding error it inherits  *)
(* from the dial and station frequencies (a few 1e-15); a gain is the double   *)
(* n / d + e1 * u + e2 * w, w being the rounding of a result near 1 (1e-16),   *)
(* far smaller than u and recorded where the exact result is 0.                *)

\* largest lock_window and fade_window drawn, in tenths of a MHz
MaxWindow == 3

\* largest delta drawn, in tenths of a MHz
MaxDelta == 7

\* signs of a rounding error
Signs == {0 - 1, 0, 1}

GainOne == [n |-> 1, d |-> 1, e1 |-> 0, e2 |-> 0]

GainZero == [n |-> 0, d |-> 1, e1 |-> 0, e2 |-> 0]

\* delta <= window, the window being the double nearest to w / 10
DeltaLeq(delta, w) == delta.v < w \/ (delta.v = w /\ delta.e <= 0)

\* sign of 1.0 - (delta - lock_window) / fade_window as the doubles give it for
\* delta = lock_window + fade_window (exactly 0 in the reals): positive for
\* 0.2 and 0.5 (1.1e-16), negative for 0.1 and 0.3 (-2.2e-16)
RoundingAtFadeEnd(lock_window, fade_window) ==
    IF <<lock_window, fade_window>> \in {<<1, 2>>, <<2, 1>>, <<2, 4>>, <<2, 5>>, <<3, 4>>,
                                          <<4, 1>>, <<4, 2>>, <<4, 3>>}
    THEN 1
    ELSE IF <<lock_window, fade_window>> \in {<<1, 3>>, <<3, 1>>, <<2, 6>>}
         THEN 0 - 1
         ELSE 0

\* gain_from_delta
gain_from_delta(delta, lock_window, fade_window) ==
    IF DeltaLeq(delta, lock_window) THEN GainOne
    ELSE IF DeltaLeq(delta, lock_window + fade_window)
         THEN [n |-> fade_window - (delta.v - lock_window), d |-> fade_window,
               e1 |-> 0 - delta.e,
               e2 |-> IF delta.v = lock_window + fade_window /\ delta.e = 0
                      THEN RoundingAtFadeEnd(lock_window, fade_window) ELSE 0]
         ELSE GainZero

\* order of two gains
GainLeq(g, h) ==
    \/ g.n * h.d < h.n * g.d
    \/ /\ g.n * h.d = h.n * g.d
       /\ (g.e1 < h.e1 \/ (g.e1 = h.e1 /\ g.e2 <= h.e2))

GainEq(g, h) == GainLeq(g, h) /\ GainLeq(h, g)

\* the deltas drawn
Deltas == [v : 0..MaxDelta, e : Signs]

DeltaLess(a, b) == a.v < b.v \/ (a.v = b.v /\ a.e < b.e)

InitGain ==
    /\ SchedulerIdle
    /\ \E lock_window \in 0..MaxWindow, fade_window \in 0..MaxWindow, a \in Deltas, b \in Deltas :
         /\ DeltaLess(a, b)
         /\ (a.v = 0 => a.e >= 0)
         /\ fn = [name |-> "gain_from_delta", lock_window |-> lock_window,
                  fade_window |-> fade_window, deltas |-> <<a, b>>,
                  gains |-> <<GainOne, GainOne>>, done |-> FALSE]

\* g = gain_from_delta(d, self.config.lock_window, self.config.fade_window), for
\* two deltas
ApplyGain ==
    /\ ~ fn.done
    /\ fn' = [fn EXCEPT !.done = TRUE,
                   !.gains = <<gain_from_delta(fn.deltas[1], fn.lock_window, fn.fade_window),
                               gain_from_delta(fn.deltas[2], fn.lock_window, fn.fade_window)>>]
    /\ SchedulerUnchanged

NextGain == ApplyGain

SpecGain == InitGain /\ [][NextGain]_vars

\* C21: gain_from_delta is non-increasing in delta, 1.0 up to lock_window, 0.0
\* from lock_window + fade_window on, within [0, 1] in between, without a jump
\* at either end of the fade (two deltas a tenth apart differ in gain by at most
\* a tenth over fade_window), and defined for fade_window = 0.
C21_GainShape ==
    fn.done =>
      /\ \A i \in 1..2 :
           /\ GainLeq(GainZero, fn.gains[i]) /\ GainLeq(fn.gains[i], GainOne)
           /\ DeltaLeq(fn.deltas[i], fn.lock_window) => GainEq(fn.gains[i], GainOne)
           /\ (/\ ~ DeltaLeq(fn.deltas[i], fn.lock_window)
               /\ ~ DeltaLess(fn.deltas[i], [v |-> fn.lock_window + fn.fade_window, e |-> 0]))
                => GainEq(fn.gains[i], GainZero)
      /\ GainLeq(fn.gains[2], fn.gains[1])
      /\ (fn.fade_window > 0 /\ fn.deltas[2].v - fn.deltas[1].v <= 1) =>
           (fn.gains[1].n * fn.gains[2].d - fn.gains[2].n * fn.gains[1].d) * fn.fade_window
             <= fn.gains[1].d * fn.gains[2].d

-----------------------------------------------------------------------------
(* radio.py: RadioApp.tune over the dial, the scheduler and the mixer. The     *)
(* dial frequency is kept in twentieths of a MHz, so that the rounding to one  *)
(* decimal in clamp_freq has something to round; deltas are twentieths too.    *)

\* RadioConfig.freq_min and freq_max, in tenths of a MHz
freq_min == BandLow

freq_max == BandLow + BandSpan

\* station_cfgs: name -> freq, in tenths of a MHz
StationFreqs == ("KA" :> BandLow + 6) @@ ("KB" :> BandLow + 14)

\* lock_window and fade_window of the runs, in tenths of a MHz: the defaults, a
\* fade that does not divide 100 evenly, and no fade
Windows == {<<2, 5>>, <<2, 3>>, <<0, 0>>}

\* deltas of tune(): a step of 0.1 MHz either way, none, and from the API 0.05 MHz
\* and a jump over the whole band
TuneDeltas == {0 - 2, 0 - 1, 0, 1, 2, 0 - (2 * BandSpan + 2), 2 * BandSpan + 2}

\* round(x, 1) of x twentieths: a value half way between two tenths goes to the
\* side its double lies on
Round1(x) == IF x % 2 = 0 THEN {x} ELSE {x - 1, x + 1}

\* variant of clamp_freq without the rounding
clamp_freq_unrounded(v, lo, hi) == {Max(2 * lo, Min(2 * hi, v))}

\* clamp_freq(v, freq_min, freq_max), v in twentieths: the values it may return
clamp_freq(v, lo, hi) == Round1(Max(2 * lo, Min(2 * hi, v)))

\* name of the station nearest_station returns for a dial at f tenths
NearestName(f) ==
    LET sorted == sorted_stations({StationFreqs[s] : s \in DOMAIN StationFreqs})
        sf == nearest_station(f, sorted.sts, midpoints(sorted.sts))
    IN  CHOOSE s \in DOMAIN StationFreqs : StationFreqs[s] = sf

Sign(x) == IF x > 0 THEN 1 ELSE IF x < 0 THEN 0 - 1 ELSE 0

\* d = abs(self.state.freq - sf): the difference of the two doubles is exact
AbsDelta(f, sf) ==
    [v |-> IF f >= sf THEN f - sf ELSE sf - f,
     e |-> IF f >= sf THEN Sign(Err10(f) - Err10(sf)) ELSE Sign(Err10(sf) - Err10(f))]

\* int(g * 100): truncation toward zero
IntPercent(g) ==
    LET q == (100 * g.n) \div g.d
        below == g.e1 < 0 \/ (g.e1 = 0 /\ g.e2 < 0)
    IN  IF (100 * g.n) % g.d # 0 THEN q
        ELSE IF below /\ q > 0 THEN q - 1 ELSE q

\* variant that refreshes the program on every tune step
StationChanged_always(station_name, name) == TRUE

\* "if self.state.station_name != name"
StationChanged(station_name, name) == station_name # name

\* nothing recorded of a tune step
NoStep ==
    [tuned |-> FALSE, delta |-> 0, pre_freq |-> 0, pre_station |-> "", set_mix |-> << >>,
     ensure |-> << >>, exc |-> "", play |-> << >>]

\* TuningState(freq=90.0) in RadioApp.__init__, the scheduler over a store that is
\* empty or holds the song KA was playing
InitRadio ==
    /\ clock = T0
    /\ cfg_var = CfgVar(0, 0, "")
    /\ \/ station_state = << >> /\ plays = << >>
       \/ LET row == CursorRow(1, T0 - Sec(1), <<1, 3>>, 1, 0, 0, T0 - Sec(1))
          IN  station_state = ("KA" :> row) /\ plays = StoredPlay("KA", row)
    /\ reserved = {}
    /\ last = [op |-> "init", now_ts |-> T0, calls |-> << >>]
    /\ overlay_song = [s \in Stations |-> NullTs]
    /\ bq = NoBuild
    /\ \E w \in Windows :
         fn = [name |-> "tune", lock_window |-> w[1], fade_window |-> w[2],
               freq |-> 2 * (90 * 10), station_name |-> "", station_freq |-> 0,
               base_music_vol |-> 0, step |-> NoStep]

\* values of time.time() in tune(): before the hour boundary and on it
TuneTimes == {T0, Boundary}

\* RadioApp.tune(delta / 20) at a time now_ts
Tune(delta) ==
    \E now_ts \in TuneTimes, freq \in clamp_freq(fn.freq + delta, freq_min, freq_max) :
      LET name == NearestName(freq \div 2)
          sf == StationFreqs[name]
          d == AbsDelta(freq \div 2, sf)
          g == gain_from_delta(d, fn.lock_window, fn.fade_window)
          base_music_vol == IntPercent(g)
          changed == StationChanged(fn.station_name, name)
          active == base_music_vol > 0
          tuned == [fn EXCEPT !.freq = freq, !.base_music_vol = base_music_vol,
                              !.station_name = IF changed THEN name ELSE @,
                              !.station_freq = IF changed THEN sf ELSE @]
          step == [tuned |-> TRUE, delta |-> delta, pre_freq |-> fn.freq,
                   pre_station |-> fn.station_name, set_mix |-> <<base_music_vol>>,
                   ensure |-> << >>, exc |-> "", play |-> << >>]
      IN  /\ now_ts >= clock
          /\ clock' = now_ts
          /\ IF changed
             THEN \E o \in ensure_station_current(cfg_var, name, now_ts, active, station_state,
                                                  plays, reserved) :
                    /\ station_state' = o.db
                    /\ plays' = o.plays
                    /\ reserved' = o.reserved
                    /\ last' = [op |-> "ensure", now_ts |-> now_ts,
                                calls |-> (name :> Call(active, o, station_state, plays, name))]
                    /\ overlay_song' = OverlaySongAfter(last'.calls)
                    /\ fn' = [tuned EXCEPT !.step =
                                [step EXCEPT !.ensure = <<name, active>>, !.exc = o.exc,
                                             !.play = IF o.exc = "" THEN <<o.np>> ELSE << >>]]
             ELSE /\ fn' = [tuned EXCEPT !.step = step]
                  /\ UNCHANGED <<station_state, plays, reserved, last, overlay_song>>
          /\ UNCHANGED <<cfg_var, bq>>

NextRadio == \E delta \in TuneDeltas : Tune(delta)

SpecRadio == InitRadio /\ [][NextRadio]_vars

\* 100 * gain of the exact delta v (tenths), as the two nearest percentages allow:
\* base is a nearest integer to it
NearestPercent(base, v, lock_window, fade_window) ==
    IF v <= lock_window THEN base = 100
    ELSE IF v >= lock_window + fade_window THEN base = 0
    ELSE LET n == 100 * (fade_window - (v - lock_window))
         IN  /\ 2 * fade_window * base <= 2 * n + fade_window
             /\ 2 * fade_window * base >= 2 * n - fade_window

\* C22: after every tune step base_music_vol is 100 times the gain of
\* |freq - station_freq|, rounded to the nearest integer.
C22_BaseVolIsRoundedGain ==
    fn.step.tuned =>
      NearestPercent(fn.base_music_vol,
                     AbsDelta(fn.freq \div 2, StationFreqs[NearestName(fn.freq \div 2)]).v,
                     fn.lock_window, fn.fade_window)

C29_TuneRefreshesOnStationChange ==
    [][fn'.step.tuned =>
         LET name == NearestName(fn'.freq \div 2)
         IN  /\ fn'.step.set_mix = <<fn'.base_music_vol>>
             /\ (fn'.step.ensure # << >>) <=> (name # fn.station_name)
             /\ fn'.step.ensure # << >> => fn'.step.ensure = <<name, fn'.base_music_vol > 0>>
             /\ fn'.step.play # << >> => fn'.step.ensure # << >>
             /\ name = fn.station_name =>
                  /\ fn'.step.play = << >>
                  /\ UNCHANGED <<station_state, plays, reserved>>]_vars

\* the dial crossed from KB to KA and the song KA is playing went to the mixer
C29_Witness ==
    /\ fn.step.tuned
    /\ fn.step.pre_station = "KB"
    /\ fn.step.ensure # << >>
    /\ fn.step.ensure[1] = "KA"
    /\ fn.step.play # << >>
    /\ fn.step.play[1].kind = "song"

-----------------------------------------------------------------------------
(* player.py: the mixer's volumes. Volumes are percentages; duck_factor is     *)
(* kept in thousandths.                                                        *)

\* clampi(v, 0, 100)
clampi(v) == Max(0, Min(100, v))

\* the pairs (vol, master) of 0..100 for which vol * (master / 100.0) is, as a
\* double, just below the integer vol * master / 100
ScaleBelow == {<<100, 29>>, <<100, 57>>, <<50, 58>>, <<100, 58>>, <<90, 70>>}

\* scale: int(vol * (master / 100.0)) truncates
scale(vol_0_100, master_0_100) ==
    LET vol == clampi(vol_0_100)
        master == clampi(master_0_100)
    IN  IF <<vol, master>> \in ScaleBelow THEN (vol * master) \div 100 - 1
        ELSE (vol * master) \div 100

\* Player._apply_volumes on a player p
apply_volumes(p) ==
    LET master == clampi(p.master_vol)
        base == clampi(p.base_music_vol)
        noise_vol == clampi(100 - base)
        eff == (base * p.duck_factor) \div 1000
    IN  [p EXCEPT !.noise_volume = scale(noise_vol, master),
                  !.music_volume = scale(clampi(eff), master),
                  !.ident_volume = scale(100, master)]

\* Player.set_mix
set_mix(p, base_music_vol_0_100) ==
    apply_volumes([p EXCEPT !.base_music_vol = clampi(base_music_vol_0_100)])

\* PlayerConfig.master_vol of the runs: the default and two others
MasterVols == {60, 55, 29}

\* duck_factor while no ramp runs: 1.0, or the duck of an overlay (0.4)
RestingDucks == {1000, 400}

\* arguments of set_mix, some outside 0..100
MixArgs == (0 - 2)..102

\* Player.__init__ (lines 58-99), duck_factor as an overlay left it
InitMix ==
    /\ SchedulerIdle
    /\ \E master_vol \in MasterVols, duck_factor \in RestingDucks, arg \in MixArgs :
         fn = [name |-> "set_mix", master_vol |-> master_vol, base_music_vol |-> 0,
               duck_factor |-> duck_factor, noise_volume |-> scale(100, master_vol),
               music_volume |-> 0, ident_volume |-> scale(100, master_vol),
               arg |-> arg, done |-> FALSE]

SetMix ==
    /\ ~ fn.done
    /\ fn' = [set_mix(fn, fn.arg) EXCEPT !.done = TRUE]
    /\ SchedulerUnchanged

NextMix == SetMix

SpecMix == InitMix /\ [][NextMix]_vars

\* vol is a nearest integer to num / den (den > 0)
NearestTo(vol, num, den) == 2 * den * vol <= 2 * num + den /\ 2 * den * vol >= 2 * num - den

\* C23: after set_mix(base) with no ramp running the noise volume is
\* scale(100 - base, master), the music volume scale(base * duck_factor, master)
\* and the overlay volume scale(100, master), scale(v, m) being
\* clamp(v) * clamp(m) / 100 rounded to the nearest integer.
C23_VolumesAreRoundedScale ==
    fn.done =>
      LET base == clampi(fn.arg)
          master == clampi(fn.master_vol)
      IN  /\ NearestTo(fn.noise_volume, (100 - base) * master, 100)
          /\ NearestTo(fn.music_volume, base * fn.duck_factor * master, 100000)
          /\ NearestTo(fn.ident_volume, 100 * master, 100)

-----------------------------------------------------------------------------
(* player.py: the mixer and its threads. The caller's thread runs play and     *)
(* stop; each threading.Timer runs fire on a thread of its own; each duck ramp *)
(* runs on a thread of its own; the overlay stream's end-file event runs       *)
(* _on_ident_end. Times are quarter seconds, ramp durations twentieths of a    *)
(* second, duck factors thousandths.                                           *)

\* most calls of play and stop in a run
MaxCalls == 3

\* most duck ramps requested in a run
MaxRamps == 3

\* OverlayIdent(path, at_s, duck, ramp_s) as the scheduler builds it, ramp_s = 0.25
Overlay(path) == [path |-> path, duck |-> 400, ramp_s |-> 5]

\* the NowPlaying values handed to play: song 1 on KA with its overlay, joined a
\* quarter second in; song 2 on KB; noise on KA
PlayerNPs ==
    LET np(station, kind, mid, started_ts, seek_s, ov) ==
          [station |-> station, kind |-> kind, path |-> mid, media_id |-> mid,
           started_ts |-> started_ts, seek_s |-> seek_s, ident_overlay |-> ov]
    IN  {np("KA", "song", 1, T0, 1, <<Overlay(6)>>),
         np("KB", "song", 2, T0, 0, << >>),
         np("KA", "noise", NullId, T0 + 1, 0, << >>)}

\* Player._cancel_ident_timer: Timer.cancel() stops a timer that still waits
cancel_ident_timer(p) ==
    [p EXCEPT !.timers = {t \in @ : ~ (t.id = p.ident_timer /\ t.state = "waiting")},
              !.ident_timer = 0]

\* steps = max(5, int(ramp_s / 0.05))
RampSteps(ramp_s) == Max(5, ramp_s)

\* Player._start_duck_ramp up to the start of its thread. An earlier thread that
\* stands before its token test can only find the token changed and return, so
\* it leaves here; one that has passed the test still has its write to make.
start_duck_ramp(p, target_factor) ==
    LET target == Max(0, Min(1000, target_factor))
        ramp_s == Max(0, p.duck_ramp_s)
        token == p.ramp_token + 1
        start == p.duck_factor
        q == [p EXCEPT !.ramp_token = token, !.ramp_target = target,
                       !.ramps = {r \in @ : r.pc # "check"}]
    IN  IF ramp_s = 0 \/ target = start
        THEN apply_volumes([q EXCEPT !.duck_factor = target])
        ELSE [q EXCEPT !.ramps = @ \cup {[token |-> token, start |-> start, target |-> target,
                                          steps |-> RampSteps(ramp_s), i |-> 1,
                                          pc |-> "check"]}]

\* Player._schedule_overlay_ident
schedule_overlay_ident(p, np, ov) ==
    LET q == cancel_ident_timer(p)
        id == CHOOSE i \in 1..(Cardinality(q.timers) + 1) :
                /\ \A t \in q.timers : t.id # i
                /\ \A j \in 1..(i - 1) : \E t \in q.timers : t.id = j
        timer == [id |-> id, state |-> "waiting", station |-> np.station,
                  started_ts |-> np.started_ts, path |-> ov.path, duck |-> ov.duck]
    IN  [q EXCEPT !.timers = @ \cup {timer}, !.ident_timer = id,
                  !.duck_ramp_s = Max(0, ov.ramp_s)]

\* "needs_load" of Player.play
needs_load(p, np) ==
    \/ p.current_station # np.station
    \/ p.current_kind # np.kind
    \/ p.current_path # np.path
    \/ p.current_media_id # np.media_id
    \/ p.current_started_ts - np.started_ts > 1
    \/ np.started_ts - p.current_started_ts > 1

\* variant of play that does nothing for noise
play_noise_untouched(p, np) ==
    IF np.kind = "noise" \/ np.path = NullId THEN p
    ELSE LET loaded ==
               IF needs_load(p, np)
               THEN LET q == start_duck_ramp(cancel_ident_timer(p), 1000)
                    IN  [q EXCEPT !.current_station = np.station, !.current_kind = np.kind,
                                  !.current_path = np.path, !.current_media_id = np.media_id,
                                  !.current_started_ts = np.started_ts,
                                  !.music = [path |-> np.path, loads |-> @.loads + 1,
                                             seeks |-> @.seeks + (IF np.seek_s >= 1 THEN 1 ELSE 0)]]
               ELSE p
             scheduled ==
               IF np.ident_overlay # << >> /\ np.kind = "song"
               THEN schedule_overlay_ident(loaded, np, np.ident_overlay[1])
               ELSE loaded
         IN  apply_volumes(scheduled)

\* Player.play; a seek is asked for when seek_s > 0.1
play(p, np) ==
    IF np.kind = "noise"
    THEN cancel_ident_timer([p EXCEPT !.current_station = np.station, !.current_kind = "noise",
                                      !.current_path = NullId, !.current_media_id = NullId,
                                      !.current_started_ts = np.started_ts])
    ELSE IF np.path = NullId THEN p
    ELSE LET loaded ==
               IF needs_load(p, np)
               THEN LET q == start_duck_ramp(cancel_ident_timer(p), 1000)
                    IN  [q EXCEPT !.current_station = np.station, !.current_kind = np.kind,
                                  !.current_path = np.path, !.current_media_id = np.media_id,
                                  !.current_started_ts = np.started_ts,
                                  !.music = [path |-> np.path, loads |-> @.loads + 1,
                                             seeks |-> @.seeks + (IF np.seek_s >= 1 THEN 1 ELSE 0)]]
               ELSE p
             scheduled ==
               IF np.ident_overlay # << >> /\ np.kind = "song"
               THEN schedule_overlay_ident(loaded, np, np.ident_overlay[1])
               ELSE loaded
         IN  apply_volumes(scheduled)

\* Player.stop
stop(p) ==
    [cancel_ident_timer(p) EXCEPT !.music.path = NullId, !.ident.path = NullId]

\* Player.__init__ with the mix at full music
InitPlayer ==
    /\ SchedulerIdle
    /\ fn = [name |-> "player", current_station |-> "", current_kind |-> "",
             current_path |-> NullId, current_media_id |-> NullId, current_started_ts |-> 0,
             base_music_vol |-> 100, master_vol |-> 60, duck_factor |-> 1000,
             duck_ramp_s |-> 10, noise_volume |-> scale(100, 60), music_volume |-> 0,
             ident_volume |-> scale(100, 60), ident_timer |-> 0, timers |-> {},
             ramp_token |-> 0, ramp_target |-> 1000, ramps |-> {},
             music |-> [path |-> NullId, loads |-> 0, seeks |-> 0],
             ident |-> [path |-> NullId, loads |-> 0],
             history |-> << >>]

\* the caller: self.player.play(np)
Play ==
    /\ Len(fn.history) < MaxCalls
    /\ fn.ramp_token < MaxRamps
    /\ \E np \in PlayerNPs :
         fn' = [play(fn, np) EXCEPT !.history = Append(@, np)]
    /\ SchedulerUnchanged

\* the caller: self.player.stop()
Stop ==
    /\ Len(fn.history) < MaxCalls
    /\ fn' = [stop(fn) EXCEPT !.history = Append(@, [kind |-> "stop"])]
    /\ SchedulerUnchanged

\* a timer's delay is over and fire makes its two tests
FireCheck ==
    /\ \E t \in fn.timers :
         /\ t.state = "waiting"
         /\ LET same == /\ fn.current_station = t.station
                         /\ fn.current_started_ts - t.started_ts <= 1
                         /\ t.started_ts - fn.current_started_ts <= 1
            IN  fn' = [fn EXCEPT !.timers = IF same THEN (@ \ {t}) \cup {[t EXCEPT !.state = "passed"]}
                                           ELSE @ \ {t}]
    /\ SchedulerUnchanged

\* fire: self._start_duck_ramp(target_factor=max(0.0, min(1.0, float(ov.duck))))
FireDuck ==
    /\ fn.ramp_token < MaxRamps
    /\ \E t \in fn.timers :
         /\ t.state = "passed"
         /\ fn' = [start_duck_ramp(fn, t.duck) EXCEPT
                     !.timers = (@ \ {t}) \cup {[t EXCEPT !.state = "ducked"]}]
    /\ SchedulerUnchanged

\* fire: self.ident.command("loadfile", ident_path, "replace")
FireLoad ==
    /\ \E t \in fn.timers :
         /\ t.state = "ducked"
         /\ fn' = [fn EXCEPT !.timers = @ \ {t},
                             !.ident = [path |-> t.path, loads |-> @.loads + 1]]
    /\ SchedulerUnchanged

\* the overlay file ends: _on_ident_end
IdentEnd ==
    /\ fn.ramp_token < MaxRamps
    /\ fn.ident.path # NullId
    /\ fn' = [start_duck_ramp(fn, 1000) EXCEPT !.ident.path = NullId]
    /\ SchedulerUnchanged

\* run(): "with self._ramp_lock: if token != self._ramp_token: return"
RampCheck ==
    /\ \E r \in fn.ramps :
         /\ r.pc = "check"
         /\ fn' = [fn EXCEPT !.ramps = IF r.token # fn.ramp_token THEN @ \ {r}
                                       ELSE (@ \ {r}) \cup {[r EXCEPT !.pc = "write"]}]
    /\ SchedulerUnchanged

\* run(): self._duck_factor = start + (target - start) * (i / steps), then the sleep
RampWrite ==
    /\ \E r \in fn.ramps :
         /\ r.pc = "write"
         /\ LET q == apply_volumes([fn EXCEPT !.duck_factor =
                                      r.start + ((r.target - r.start) * r.i) \div r.steps])
                next == [r EXCEPT !.i = r.i + 1, !.pc = IF r.i = r.steps THEN "final" ELSE "check"]
            IN  fn' = [q EXCEPT !.ramps = (@ \ {r}) \cup {next}]
    /\ SchedulerUnchanged

\* run(): after the loop, self._duck_factor = target
RampFinal ==
    /\ \E r \in fn.ramps :
         /\ r.pc = "final"
         /\ fn' = [apply_volumes([fn EXCEPT !.duck_factor = r.target]) EXCEPT
                     !.ramps = @ \ {r}]
    /\ SchedulerUnchanged

NextPlayer ==
    \/ Play
    \/ Stop
    \/ FireCheck
    \/ FireDuck
    \/ FireLoad
    \/ IdentEnd
    \/ RampCheck
    \/ RampWrite
    \/ RampFinal

SpecPlayer == InitPlayer /\ [][NextPlayer]_vars

\* every call so far was play of one and the same programme item
SameItemReplayed ==
    /\ fn.history # << >>
    /\ \A i \in DOMAIN fn.history : fn.history[i] = fn.history[1]
    /\ fn.history[1].kind = "song"

\* C24: play is idempotent: while only the same NowPlaying is played again, the
\* music stream is loaded and sought once, and the item's overlay is ducked for
\* and loaded at most once.
C24_PlayIdempotent ==
    SameItemReplayed =>
        /\ fn.music.loads <= 1
        /\ fn.music.seeks <= 1
        /\ fn.ident.loads <= 1
        /\ Cardinality({t \in fn.timers : t.state = "ducked"}) + fn.ident.loads <= 1

\* the last-loaded programme record
ProgramRecord(p) ==
    <<p.current_station, p.current_kind, p.current_path, p.current_media_id,
      p.current_started_ts>>

\* the step is a call of play, and LatestCall is the NowPlaying it was given
PlayCalled == Len(fn'.history) = Len(fn.history) + 1 /\ fn'.history[Len(fn'.history)].kind # "stop"

LatestCall == fn'.history[Len(fn'.history)]

\* C25 as stated: play of a noise NowPlaying is a no-op: the last-loaded programme
\* record, the pending overlay timer and every stream stay as they were.
C25_NoisePlayIsNoOp ==
    [][PlayCalled /\ LatestCall.kind = "noise" =>
          /\ ProgramRecord(fn') = ProgramRecord(fn)
          /\ fn'.ident_timer = fn.ident_timer
          /\ fn'.timers = fn.timers
          /\ fn'.music = fn.music
          /\ fn'.ident = fn.ident]_vars

\* C25 amended: play of a noise NowPlaying touches no stream and starts no ramp,
\* but it replaces the programme record by the noise period and cancels the
\* pending overlay timer; a play of a programme item that follows it loads the
\* music stream anew.
C25_NoisePlayRecordsNoisePeriod ==
    [][/\ PlayCalled /\ LatestCall.kind = "noise" =>
            /\ fn'.music = fn.music
            /\ fn'.ident = fn.ident
            /\ <<fn'.noise_volume, fn'.music_volume, fn'.ident_volume>>
                 = <<fn.noise_volume, fn.music_volume, fn.ident_volume>>
            /\ <<fn'.duck_factor, fn'.ramp_token, fn'.ramps>>
                 = <<fn.duck_factor, fn.ramp_token, fn.ramps>>
            /\ ProgramRecord(fn') = <<LatestCall.station, "noise", NullId, NullId,
                                      LatestCall.started_ts>>
            /\ fn'.ident_timer = 0
            /\ fn'.timers = {t \in fn.timers : t.state # "waiting"}
       /\ PlayCalled /\ LatestCall.kind # "noise" /\ fn.current_kind = "noise" =>
            /\ fn'.music.loads = fn.music.loads + 1
            /\ ProgramRecord(fn') = <<LatestCall.station, LatestCall.kind, LatestCall.path,
                                      LatestCall.media_id, LatestCall.started_ts>>]_vars

\* a song with a pending overlay, then noise, then the same song again: loaded twice
C25_Witness ==
    /\ Len(fn.history) = 3
    /\ fn.history[1].kind = "song"
    /\ fn.history[1].ident_overlay # << >>
    /\ fn.history[2].kind = "noise"
    /\ fn.history[3] = fn.history[1]
    /\ fn.music.loads = 2
    /\ fn.ident.loads = 0

\* the step loads an overlay, and LoadingTimer is the timer whose fire does it
OverlayLoaded == fn'.ident.loads = fn.ident.loads + 1

LoadingTimer == CHOOSE t \in fn.timers : t.state = "ducked" /\ t \notin fn'.timers

\* C26: an overlay scheduled for (station, started_ts) is loaded only while that
\* station is current and the current started_ts is within a quarter second of
\* the one it was scheduled for.
C26_OverlayLoadsOnlyOnItsItem ==
    [][OverlayLoaded =>
          /\ fn.current_station = LoadingTimer.station
          /\ fn.current_started_ts - LoadingTimer.started_ts <= 1
          /\ LoadingTimer.started_ts - fn.current_started_ts <= 1]_vars

\* the step is a write of duck_factor by a ramp thread, and WritingRamp is that thread
RampWrote == \E r \in fn.ramps : r.pc \in {"write", "final"} /\ r \notin fn'.ramps /\ fn'.ramp_token = fn.ramp_token

WritingRamp == CHOOSE r \in fn.ramps : r.pc \in {"write", "final"} /\ r \notin fn'.ramps

\* C27: a new duck ramp invalidates every earlier one: only the thread of the
\* latest ramp writes duck_factor, duck_factor stays between 0 and 1, and once
\* every ramp thread has ended duck_factor is the target of the latest ramp.
C27_LatestRampWins ==
    [][/\ RampWrote => WritingRamp.token = fn.ramp_token
       /\ fn'.duck_factor \in 0..1000
       /\ fn'.ramps = {} => fn'.duck_factor = fn'.ramp_target]_vars

-----------------------------------------------------------------------------
(* radio.py and scheduler.py: two threads on the one connection. The main loop *)
(* calls the scheduler outside RadioApp._lock and an input thread calls it     *)
(* from tune(); db.connect opens the connection with check_same_thread=False.  *)
(* A call reads the station's row, decides, and then writes; the other thread  *)
(* may run between the reading and the writing.                                *)

SharedThreads == {"main", "input"}

\* the station both threads work on
Shared == "KA"

\* no call made yet
NotCalled == [pc |-> "idle"]

\* the statements a call runs after its reads, replayed on the store as it is by
\* then: each column the call assigned is written, the others are left alone
ReplayWrites(seen, out, cur) ==
    IF out = seen \/ Shared \notin DOMAIN out THEN cur
    ELSE LET base == IF Shared \in DOMAIN seen THEN seen[Shared] ELSE DefaultRow
             row == IF Shared \in DOMAIN cur THEN cur[Shared] ELSE DefaultRow
         IN  Upsert(cur, Shared, [c \in StationStateColumns |->
                                    IF out[Shared][c] # base[c] THEN out[Shared][c] ELSE row[c]])

\* the plays rows a call inserts, appended to the log as it is by then
ReplayPlays(seen_plays, out_plays, cur_plays) ==
    cur_plays \o SubSeq(out_plays, Len(seen_plays) + 1, Len(out_plays))

\* the store a call starts from: tick_all runs _maybe_mark_break_due first
StoreAtCall(op, now_ts, db) ==
    IF op = "tick_all" THEN maybe_mark_break_due(cfg_var, Shared, now_ts, db) ELSE db

\* the calls of each thread: the main loop's tick_all (active=False) and its
\* ensure_station_current(st, now, active=True); tune()'s ensure_station_current
ThreadCalls(t) ==
    IF t = "main" THEN {[op |-> "tick_all", active |-> FALSE], [op |-> "ensure", active |-> TRUE]}
    ELSE {[op |-> "ensure", active |-> a] : a \in BOOLEAN}

InitShared ==
    /\ clock = T0
    /\ cfg_var \in CfgVars
    /\ \/ station_state = << >> /\ plays = << >>
       \/ \E row \in StoredRows :
            /\ station_state = (Shared :> row)
            /\ plays = StoredPlay(Shared, row)
    /\ reserved = {}
    /\ last = [op |-> "init", now_ts |-> T0, calls |-> << >>]
    /\ overlay_song = [s \in Stations |-> NullTs]
    /\ bq = NoBuild
    /\ fn = [name |-> "threads", start_db |-> station_state, start_plays |-> plays,
             threads |-> [t \in SharedThreads |-> NotCalled]]

\* a thread enters the scheduler: its reads, and what it decides on them
SharedBegin(t) ==
    /\ fn.threads[t].pc = "idle"
    /\ \E now_ts \in Times, call \in ThreadCalls(t) :
         /\ now_ts >= clock
         /\ clock' = now_ts
         /\ LET db == StoreAtCall(call.op, now_ts, station_state)
            IN  /\ station_state' = db
                /\ \E o \in ensure_station_current(cfg_var, Shared, now_ts, call.active, db,
                                                   plays, reserved) :
                     fn' = [fn EXCEPT !.threads[t] =
                              [pc |-> "called", op |-> call.op, active |-> call.active,
                               now_ts |-> now_ts, seen |-> db, seen_plays |-> plays, out |-> o]]
    /\ UNCHANGED <<plays, reserved, cfg_var, last, overlay_song, bq>>

\* the thread's writes, its commit and its return
SharedEnd(t) ==
    /\ fn.threads[t].pc = "called"
    /\ LET th == fn.threads[t]
       IN  /\ station_state' = ReplayWrites(th.seen, th.out.db, station_state)
           /\ plays' = ReplayPlays(th.seen_plays, th.out.plays, plays)
           /\ reserved' = reserved \cup th.out.reserved
           /\ fn' = [fn EXCEPT !.threads[t] =
                       [pc |-> "done", op |-> th.op, active |-> th.active, now_ts |-> th.now_ts,
                        exc |-> th.out.exc, np |-> th.out.np]]
    /\ UNCHANGED <<clock, cfg_var, last, overlay_song, bq>>

NextShared ==
    \/ \E t \in SharedThreads : SharedBegin(t)
    \/ \E t \in SharedThreads : SharedEnd(t)

SpecShared == InitShared /\ [][NextShared]_vars

\* what the two calls give when the first runs to its end before the second
\* starts: the store, the plays log and the two results
OneAfterAnother(first, second) ==
    LET a == fn.threads[first]
        b == fn.threads[second]
        db0 == StoreAtCall(a.op, a.now_ts, fn.start_db)
    IN  UNION { LET db1 == StoreAtCall(b.op, b.now_ts, oa.db)
                IN  { [db |-> ob.db, plays |-> ob.plays]
                        @@ (first :> [exc |-> oa.exc, np |-> oa.np])
                        @@ (second :> [exc |-> ob.exc, np |-> ob.np])
                      : ob \in ensure_station_current(cfg_var, Shared, b.now_ts, b.active, db1,
                                                      oa.plays, oa.reserved) }
              : oa \in ensure_station_current(cfg_var, Shared, a.now_ts, a.active, db0,
                                              fn.start_plays, {}) }

\* both calls have returned
BothReturned == \A t \in SharedThreads : fn.threads[t].pc = "done"

\* what the two calls gave
Together ==
    [db |-> station_state, plays |-> plays]
      @@ [t \in SharedThreads |-> [exc |-> fn.threads[t].exc, np |-> fn.threads[t].np]]

\* C30: the calls of the main thread and of an input thread on one station give
\* the store, the plays log and the results they give when run one after
\* another, in one order or the other.
C30_AsOneAfterAnother ==
    BothReturned => Together \in OneAfterAnother("main", "input") \cup OneAfterAnother("input", "main")

\* the call of thread th found the station's item ended in a slot with tags
FoundEnded(th) ==
    /\ schedule_entry_for_now(cfg_var, Shared, th.now_ts).tags # {}
    /\ ~ StillValid(get_station_state(th.seen, Shared), th.now_ts)

\* the cursor of db points at a programme item started at now_ts and the plays
\* log pl ends with the row of that item
StartedWithPlay(db, pl, now_ts) ==
    /\ Shared \in DOMAIN db
    /\ db[Shared].kind \notin {"", "noise"}
    /\ db[Shared].started_ts = now_ts
    /\ pl # << >>
    /\ pl[Len(pl)] = [station |-> Shared, media_id |-> db[Shared].current_media_id,
                      kind |-> db[Shared].kind, started_ts |-> now_ts]

\* C31: a call that finds the item ended writes, for one commit, either the
\* cursor of a newly started item together with that item's plays row, or a
\* noise cursor with no plays row; it never leaves one of the two without the other.
C31_CursorAndPlayTogether ==
    \A t \in SharedThreads :
      LET th == fn.threads[t]
      IN  th.pc = "called" /\ FoundEnded(th) =>
            /\ th.out.exc = ""
            /\ \/ /\ StartedWithPlay(th.out.db, th.out.plays, th.now_ts)
                  /\ Len(th.out.plays) = Len(th.seen_plays) + 1
               \/ /\ th.out.db[Shared].kind = "noise"
                  /\ th.out.plays = th.seen_plays

-----------------------------------------------------------------------------
(* api.py: POST /tune. The handler validates its two optional parameters,     *)
(* reads the dial under the lock and calls RadioApp.tune with the difference.  *)

\* a query parameter that was not given
NoStation == ""

NoFrequency == 0 - 1

\* station parameters of the requests: none, the configured ones, an unknown one
RequestStations == {NoStation, "KA", "KB", "KX"}

\* frequency parameters, in twentieths of a MHz: none, 90.6, 90.25, and 92.2
\* which lies beyond the band
RequestFrequencies ==
    {NoFrequency, 2 * BandLow + 12, 2 * BandLow + 5, 2 * (BandLow + BandSpan) + 4}

\* no request received yet
NoRequest == [pc |-> "none", station |-> NoStation, frequency |-> NoFrequency, status |-> 0,
              target_freq |-> 0]

\* variant of the validation that lets the station win when both are given
tune_status_stationfirst(station, frequency) ==
    IF station # NoStation
    THEN IF station \notin DOMAIN StationFreqs THEN 404 ELSE 0
    ELSE IF frequency # NoFrequency THEN 0 ELSE 400

\* the HTTPException status the handler raises before tuning, 0 when it raises none
tune_status(station, frequency) ==
    IF station # NoStation /\ frequency # NoFrequency THEN 400
    ELSE IF station # NoStation
    THEN IF station \notin DOMAIN StationFreqs THEN 404 ELSE 0
    ELSE IF frequency # NoFrequency THEN 0 ELSE 400

\* target_freq of an accepted request, in twentieths
target_freq(station, frequency) ==
    IF station # NoStation THEN 2 * StationFreqs[station] ELSE frequency

InitApi ==
    /\ clock = T0
    /\ cfg_var = CfgVar(0, 0, "")
    /\ \/ station_state = << >> /\ plays = << >>
       \/ LET row == CursorRow(1, T0 - Sec(1), <<1, 3>>, 1, 0, 0, T0 - Sec(1))
          IN  station_state = ("KA" :> row) /\ plays = StoredPlay("KA", row)
    /\ reserved = {}
    /\ last = [op |-> "init", now_ts |-> T0, calls |-> << >>]
    /\ overlay_song = [s \in Stations |-> NullTs]
    /\ bq = NoBuild
    /\ \E w \in Windows :
         fn = [name |-> "api", lock_window |-> w[1], fade_window |-> w[2],
               freq |-> 2 * (90 * 10), station_name |-> "", station_freq |-> 0,
               base_music_vol |-> 0, step |-> NoStep, request |-> NoRequest]

\* the handler up to "app.tune(target_freq - current_freq)": a rejected request
\* ends here with its status
ApiRequest ==
    /\ fn.request.pc \in {"none", "done"}
    /\ \E station \in RequestStations, frequency \in RequestFrequencies :
         LET status == tune_status(station, frequency)
         IN  fn' = [fn EXCEPT !.step = NoStep,
                              !.request =
                                [pc |-> IF status = 0 THEN "tune" ELSE "done",
                                 station |-> station, frequency |-> frequency,
                                 status |-> status,
                                 target_freq |-> IF status = 0
                                                 THEN target_freq(station, frequency) ELSE 0]]
    /\ UNCHANGED <<clock, station_state, plays, reserved, cfg_var, last, overlay_song, bq>>

\* app.tune(target_freq - current_freq)
ApiTune ==
    /\ fn.request.pc = "tune"
    /\ ~ fn.step.tuned
    /\ Tune(fn.request.target_freq - fn.freq)

\* return _get_status()
ApiRespond ==
    /\ fn.request.pc = "tune"
    /\ fn.step.tuned
    /\ fn' = [fn EXCEPT !.request.pc = "done", !.request.status = 200]
    /\ UNCHANGED <<clock, station_state, plays, reserved, cfg_var, last, overlay_song, bq>>

NextApi ==
    \/ ApiRequest
    \/ ApiTune
    \/ ApiRespond

SpecApi == InitApi /\ [][NextApi]_vars

\* the dial state
Dial(p) == <<p.freq, p.station_name, p.station_freq, p.base_music_vol>>

\* C32: POST /tune answers 400 when both station and frequency are given and
\* when neither is, 404 when the station is not configured; a request answered
\* so leaves the dial and the scheduler's store as they were and is followed by
\* no set_mix, ensure_station_current or play.
C32_TuneRejected ==
    [][/\ fn'.request # fn.request /\ fn.request.pc # "tune" =>
            LET r == fn'.request
            IN  /\ r.station # NoStation /\ r.frequency # NoFrequency => r.status = 400
                /\ r.station = NoStation /\ r.frequency = NoFrequency => r.status = 400
                /\ r.frequency = NoFrequency /\ r.station \notin DOMAIN StationFreqs \cup {NoStation}
                     => r.status = 404
                /\ r.status \in {400, 404} =>
                     /\ r.pc = "done"
                     /\ Dial(fn') = Dial(fn)
                     /\ fn'.step = NoStep
                     /\ <<station_state, plays, reserved>>' = <<station_state, plays, reserved>>
       /\ fn'.step.tuned /\ ~ fn.step.tuned => fn.request.status = 0]_vars

\* an unknown station is refused while the dial sits on KA
C32_Witness ==
    /\ fn.request.status = 404
    /\ fn.request.station = "KX"
    /\ fn.station_name = "KA"
    /\ fn.step = NoStep

-----------------------------------------------------------------------------
(* scheduler.py: _overlay_if_due on its own, over slots with and without an    *)
(* overlays directory and with a directory that holds no overlay.              *)

\* overlays_dir of the slot: none, the station's, and one with no media under it
OverlayDirs == {"", "KA-overlays", "KA-jingles"}

\* overlays_probability of the slot, in percent
OverlayProbabilities == {0, 50, 100}

\* most attempts in a run
MaxAttempts == 2

InitOverlayDue ==
    /\ SchedulerIdle
    /\ \E row \in StoredRows, force \in {0, 1}, dir \in OverlayDirs,
          prob \in OverlayProbabilities :
         fn = [name |-> "overlay_if_due",
               db |-> ("KA" :> [row EXCEPT !.force_ident_next = force]),
               entry |-> [tags |-> {"pop"}, overlays_dir |-> dir, overlays_probability |-> prob],
               attempts |-> 0, consume |-> FALSE, pre |-> << >>, overlay |-> NullId]

\* self._overlay_if_due(station_name, cfg, sid, now_ts, st, schedule_entry, consume=consume)
OverlayIfDue ==
    /\ fn.attempts < MaxAttempts
    /\ \E consume \in BOOLEAN :
         \E o \in overlay_if_due("KA", fn.db, get_station_state(fn.db, "KA"), fn.entry, consume) :
           fn' = [fn EXCEPT !.db = o.db, !.attempts = @ + 1, !.consume = consume,
                            !.pre = <<fn.db["KA"]>>, !.overlay = o.overlay]
    /\ SchedulerUnchanged

NextOverlayDue == OverlayIfDue

SpecOverlayDue == InitOverlayDue /\ [][NextOverlayDue]_vars

\* the slot cannot produce an overlay
NoOverlayToGive(entry) ==
    entry.overlays_dir = "" \/ station_media_filtered("KA", "overlay", entry.overlays_dir) = {}

\* C33: an attempt with force_ident_next = 1 in a slot that cannot produce an
\* overlay returns none and clears the flag, leaving the other columns; an
\* attempt with force_ident_next = 0 that returns no overlay changes no flag.
C33_ForcedFlagNotLatched ==
    fn.attempts > 0 /\ fn.consume =>
      /\ NoOverlayToGive(fn.entry) /\ fn.pre[1].force_ident_next = 1 =>
           /\ fn.overlay = NullId
           /\ fn.db["KA"] = [fn.pre[1] EXCEPT !.force_ident_next = 0]
      /\ fn.pre[1].force_ident_next = 0 /\ fn.overlay = NullId => fn.db["KA"] = fn.pre[1]

\* a forced overlay met a directory with no overlay under it, and the flag is cleared
C33_Witness ==
    /\ fn.attempts > 0
    /\ fn.consume
    /\ fn.entry.overlays_dir = "KA-jingles"
    /\ fn.pre[1].force_ident_next = 1
    /\ fn.db["KA"].force_ident_next = 0
    /\ fn.overlay = NullId

-----------------------------------------------------------------------------
(* player.py: play called from two threads. RadioApp.run calls                 *)
(* _maybe_log_and_play outside RadioApp._lock and tune() calls it on an input  *)
(* thread; Player.play takes no lock, so its statements interleave.            *)

PlayThreads == {"main", "input"}

\* the NowPlaying values of the two stations' songs, each with an overlay
SharedNPs ==
    {[station |-> "KA", kind |-> "song", path |-> 1, media_id |-> 1, started_ts |-> T0,
      seek_s |-> 1, ident_overlay |-> <<Overlay(6)>>],
     [station |-> "KB", kind |-> "song", path |-> 2, media_id |-> 2, started_ts |-> T0,
      seek_s |-> 0, ident_overlay |-> <<Overlay(6)>>]}

\* Player.__init__, and no thread inside play
InitPlayShared ==
    /\ SchedulerIdle
    /\ fn = [name |-> "play_shared", current_station |-> "", current_kind |-> "",
             current_path |-> NullId, current_media_id |-> NullId, current_started_ts |-> 0,
             base_music_vol |-> 100, master_vol |-> 60, duck_factor |-> 1000,
             duck_ramp_s |-> 10, noise_volume |-> scale(100, 60), music_volume |-> 0,
             ident_volume |-> scale(100, 60), ident_timer |-> 0, timers |-> {},
             ramp_token |-> 0, ramp_target |-> 1000, ramps |-> {},
             music |-> [path |-> NullId, loads |-> 0, seeks |-> 0],
             ident |-> [path |-> NullId, loads |-> 0],
             threads |-> [t \in PlayThreads |-> [pc |-> "idle"]]]

\* play(np) is entered and needs_load is evaluated
PlayEnter(t) ==
    /\ fn.threads[t].pc = "idle"
    /\ \E np \in SharedNPs :
         fn' = [fn EXCEPT !.threads[t] =
                  [pc |-> IF needs_load(fn, np) THEN "record" ELSE "overlay", np |-> np]]
    /\ SchedulerUnchanged

\* lines 170-180: cancel the timer, reset the duck, assign the current_* fields
PlayRecord(t) ==
    /\ fn.threads[t].pc = "record"
    /\ LET np == fn.threads[t].np
           q == start_duck_ramp(cancel_ident_timer(fn), 1000)
       IN  fn' = [q EXCEPT !.current_station = np.station, !.current_kind = np.kind,
                           !.current_path = np.path, !.current_media_id = np.media_id,
                           !.current_started_ts = np.started_ts,
                           !.threads[t].pc = "load"]
    /\ SchedulerUnchanged

\* lines 183-187: loadfile on the music stream and the seek
PlayLoad(t) ==
    /\ fn.threads[t].pc = "load"
    /\ LET np == fn.threads[t].np
       IN  fn' = [fn EXCEPT !.music = [path |-> np.path, loads |-> @.loads + 1,
                                       seeks |-> @.seeks + (IF np.seek_s >= 1 THEN 1 ELSE 0)],
                            !.threads[t].pc = "overlay"]
    /\ SchedulerUnchanged

\* _schedule_overlay_ident, line 224: self._cancel_ident_timer()
PlayCancelTimer(t) ==
    /\ fn.threads[t].pc = "overlay"
    /\ fn' = [cancel_ident_timer(fn) EXCEPT !.threads[t].pc = "timer"]
    /\ SchedulerUnchanged

\* _schedule_overlay_ident, lines 246-254: the new timer is stored and started;
\* then _apply_volumes and the return
PlayStartTimer(t) ==
    /\ fn.threads[t].pc = "timer"
    /\ LET np == fn.threads[t].np
           ov == np.ident_overlay[1]
           id == Cardinality(fn.timers) + 1
           timer == [id |-> id, state |-> "waiting", station |-> np.station,
                     started_ts |-> np.started_ts, path |-> ov.path, duck |-> ov.duck]
       IN  fn' = [apply_volumes([fn EXCEPT !.timers = @ \cup {timer}, !.ident_timer = id,
                                           !.duck_ramp_s = Max(0, ov.ramp_s)])
                    EXCEPT !.threads[t].pc = "done"]
    /\ SchedulerUnchanged

NextPlayShared ==
    \/ \E t \in PlayThreads : PlayEnter(t)
    \/ \E t \in PlayThreads : PlayRecord(t)
    \/ \E t \in PlayThreads : PlayLoad(t)
    \/ \E t \in PlayThreads : PlayCancelTimer(t)
    \/ \E t \in PlayThreads : PlayStartTimer(t)

SpecPlayShared == InitPlayShared /\ [][NextPlayShared]_vars

\* C34: once the two threads' play calls have returned, the last-loaded record
\* names the file that is loaded in the music stream and at most one overlay
\* timer is pending.
C34_PlayCallsDoNotInterleave ==
    (\A t \in PlayThreads : fn.threads[t].pc = "done") =>
      /\ fn.current_path = fn.music.path
      /\ Cardinality({x \in fn.timers : x.state = "waiting"}) <= 1

-----------------------------------------------------------------------------
(* scheduler.py: the best-fit choice over larger catalogues *)

\* a media table of n songs, ids 1..n: durations fall from top by step down to
\* a floor of 20 s, every fifth song tagged rock
Catalogue(n, top, step) ==
    [i \in 1..n |-> [kind |-> "song", tag |-> IF i % 5 = 0 THEN "rock" ELSE "pop",
                     duration_s |-> Max(Sec(20), top - step * (i - 1))]]

Catalogues ==
    {Catalogue(n, top, step) : n \in {1, 3, 22, 25}, top \in {Sec(240), Sec(310)},
                               step \in {0, Sec(10), Sec(31), Sec(60)}}

RECURSIVE OrderRows(_, _)
\* ORDER BY duration_s DESC, id DESC
OrderRows(cat, S) ==
    IF S = {} THEN << >>
    ELSE LET top == CHOOSE m \in S : \A o \in S :
                        \/ cat[o].duration_s < cat[m].duration_s
                        \/ (cat[o].duration_s = cat[m].duration_s /\ o <= m)
         IN  <<top>> \o OrderRows(cat, S \ {top})

\* SELECT id, path, duration_s FROM media WHERE kind='song' AND tag IN (...)
\* AND duration_s <= ? ORDER BY duration_s DESC, id DESC LIMIT ?
QueryRows(cat, tags, max_duration) ==
    Take(OrderRows(cat, {m \in DOMAIN cat : /\ cat[m].kind = "song"
                                            /\ cat[m].tag \in tags
                                            /\ cat[m].duration_s <= max_duration}),
         PoolLimit)

\* variant of the choice that always draws from the longest rows
ChooseFrom_longest(cat, rows0, avoid_ids) ==
    LET filtered == SelectSeq(rows0, LAMBDA m : m \notin avoid_ids)
        rows == IF filtered # << >> THEN filtered ELSE rows0
    IN  Elems(Take(rows, TopRows))

\* filtered / near / pick_from of _pick_best_fit_song_station_seeded
ChooseFrom(cat, rows0, avoid_ids) ==
    LET filtered == SelectSeq(rows0, LAMBDA m : m \notin avoid_ids)
        rows == IF filtered # << >> THEN filtered ELSE rows0
        best_dur == cat[rows[1]].duration_s
        near == SelectSeq(rows, LAMBDA m : (best_dur - cat[m].duration_s) <= NearWindow)
    IN  IF Len(near) >= 2 THEN Elems(near) ELSE Elems(Take(rows, TopRows))

\* no query was made: the call returned before the jitter
NoLimit == Sec(0)

InitChoice ==
    /\ SchedulerIdle
    /\ \E cat \in Catalogues, tags \in {{}, {"pop"}, {"pop", "rock"}},
          max_duration \in {Sec(1), Sec(100), Sec(250), Sec(300)},
          avoid_ids \in {{}, {1}, {1, 2}, 1..25} :
         fn = [name |-> "choice", cat |-> cat, tags |-> tags, max_duration |-> max_duration,
               avoid_ids |-> avoid_ids, limit |-> NoLimit, song |-> NullId, done |-> FALSE]

\* Scheduler._pick_best_fit_song_station_seeded
ChooseSong ==
    /\ ~ fn.done
    /\ IF fn.max_duration <= Sec(1) \/ fn.tags = {}
       THEN fn' = [fn EXCEPT !.done = TRUE]
       ELSE \E limit \in JitteredLimits(fn.max_duration) :
              LET rows0 == QueryRows(fn.cat, fn.tags, limit)
              IN  IF rows0 = << >>
                  THEN fn' = [fn EXCEPT !.limit = limit, !.done = TRUE]
                  ELSE \E song \in ChooseFrom(fn.cat, rows0, fn.avoid_ids) :
                         fn' = [fn EXCEPT !.limit = limit, !.song = song, !.done = TRUE]
    /\ SchedulerUnchanged

NextChoice == ChooseSong

SpecChoice == InitChoice /\ [][NextChoice]_vars

\* the songs of the table that fit: kind song, a tag of the slot, no longer than
\* the jittered limit
Fitting == {m \in DOMAIN fn.cat : /\ fn.cat[m].kind = "song"
                                  /\ fn.cat[m].tag \in fn.tags
                                  /\ fn.cat[m].duration_s <= fn.limit}

\* ... less the avoided ones, unless that leaves none
Candidates == IF Fitting \ fn.avoid_ids # {} THEN Fitting \ fn.avoid_ids ELSE Fitting

Longest == CHOOSE d \in {fn.cat[m].duration_s : m \in Candidates} :
               \A m \in Candidates : fn.cat[m].duration_s <= d

NearTies == {m \in Candidates : Longest - fn.cat[m].duration_s <= NearWindow}

\* the candidates ordered before m: longer, or as long with a higher id
Before(m) == {o \in Candidates : \/ fn.cat[o].duration_s > fn.cat[m].duration_s
                                 \/ (fn.cat[o].duration_s = fn.cat[m].duration_s /\ o > m)}

\* C35: with at least two candidates within near_window_s of the longest
\* candidate the chosen song is one of those near-ties; otherwise it is one of
\* the 20 longest candidates.
C35_NearTiesElseLongest ==
    (fn.name = "choice" /\ fn.done /\ fn.song # NullId) =>
      /\ fn.song \in Candidates
      /\ IF Cardinality(NearTies) >= 2
         THEN fn.song \in NearTies
         ELSE Cardinality(Before(fn.song)) < TopRows

\* durations {240, 180, 120} under a 300 s limit with nothing avoided: the
\* shortest of the three was chosen
C35_Witness ==
    /\ fn.name = "choice" /\ fn.done
    /\ fn.cat = Catalogue(3, Sec(240), Sec(60))
    /\ fn.limit = Sec(300) /\ fn.avoid_ids = {}
    /\ fn.song = 3 /\ fn.cat[3].duration_s = Sec(120)
    /\ Cardinality(NearTies) = 1

-----------------------------------------------------------------------------
(* scheduler.py: the avoid set of a song selection *)

\* what a station's cursor may hold when another station selects a song: no
\* row, a row at noise (no media), or a row at a song or an ident
CursorChoices == {NullId, 1, 2, 3}

\* the station_state table with the given cursors; a station without a cursor
\* choice has no row
CursorTable(cursors) ==
    [s \in DOMAIN cursors |->
       IF cursors[s] = NullId
       THEN [DefaultRow EXCEPT !.kind = "noise", !.started_ts = T0 - 4, !.ends_ts = T0]
       ELSE CursorRow(cursors[s], T0 - Media[cursors[s]].duration_s, << >>, 0, 0, 0, 0)]

InitAvoid ==
    /\ SchedulerIdle
    /\ \E present \in SUBSET Stations, rs \in SUBSET Songs, max_duration \in 0..MaxRemaining :
         \E cursors \in [present -> CursorChoices] :
           fn = [name |-> "avoid", station |-> "KA", db |-> CursorTable(cursors),
                 reserved |-> rs, max_duration |-> max_duration,
                 song |-> NullId, done |-> FALSE]

\* song = self._pick_best_fit_song_station_seeded(station_name, tags=tags, ...)
\* for station KA, whose own item (if any) has just ended
AvoidSelect ==
    /\ ~ fn.done
    /\ \E song \in pick_best_fit_song_station_seeded({"pop"}, fn.max_duration,
                                                       fn.db, fn.reserved) :
         fn' = [fn EXCEPT !.song = song, !.done = TRUE]
    /\ SchedulerUnchanged

NextAvoid == AvoidSelect

SpecAvoid == InitAvoid /\ [][NextAvoid]_vars

\* the per-tick reserved ids and the current media of the other stations' cursors
ReservedAndOthers ==
    fn.reserved \cup ({fn.db[s].current_media_id : s \in DOMAIN fn.db \ {fn.station}}
                        \ {NullId})

\* the station's pool under one jittered limit
Pool(limit) == {m \in Songs : Media[m].tag = "pop" /\ Media[m].duration_s <= limit}

\* C36: the song a station selects to start is neither reserved in this tick
\* nor the current media of another station's cursor, unless every song of the
\* station's pool is reserved or current on another station.
C36_AvoidsReservedAndOthers ==
    (fn.name = "avoid" /\ fn.done /\ fn.song # NullId) =>
      \E limit \in JitteredLimits(fn.max_duration) :
        /\ fn.song \in Pool(limit)
        /\ fn.song \in ReservedAndOthers => Pool(limit) \subseteq ReservedAndOthers

-----------------------------------------------------------------------------
(* Between-song idents *)

\* a song of the slot's tags fits the time left to the boundary under every
\* draw of the jitter
SongFits(s, now_ts) ==
    LET remaining == next_slot_start_ts(now_ts) - now_ts
    IN  /\ remaining > Sec(1)
        /\ \E m \in Songs :
             /\ Media[m].tag \in schedule_entry_for_now(cfg_var, s, now_ts).tags
             /\ Media[m].duration_s <= Max(Sec(1), remaining - DurationJitter)

\* the call gets to the best-fit branch: tags in the slot, no valid item, no
\* queue to continue, no jingle directory and no break pending
ReachesBestFit(s, k, now_ts) ==
    /\ ~ NoiseSlot(s, now_ts)
    /\ ~ FoundValid(k, now_ts)
    /\ ~ QueueUnfinished(k)
    /\ StationCfg(cfg_var, s).top_of_the_hour = ""
    /\ (k.pre = << >> \/ k.pre[1].pending_break = 0)

\* ident_frequency_s > 0, now_ts - last_ident_ts >= ident_frequency_s and the
\* station has an ident
IdentIsDue(s, k, now_ts) ==
    LET freq == StationCfg(cfg_var, s).ident_frequency_s
        stored == IF k.pre # << >> THEN k.pre[1].last_ident_ts ELSE 0
    IN  /\ freq > 0
        /\ now_ts - stored >= Sec(freq)
        /\ station_media_pool(s, "ident") # {}

\* C37: a call that reaches the best-fit branch with a fitting song starts a
\* song at now_ts; when a between-song ident is due it leaves the queue
\* [song, ident] at index 1 and last_ident_ts = now_ts, and otherwise an empty
\* queue and last_ident_ts as it was.
C37_IdentQueuedWhenDue ==
    \A s \in DOMAIN last.calls :
      LET k == last.calls[s]
          stored == IF k.pre # << >> THEN k.pre[1].last_ident_ts ELSE 0
      IN  (ReachesBestFit(s, k, last.now_ts) /\ SongFits(s, last.now_ts)) =>
            /\ k.exc = ""
            /\ k.np.kind = "song" /\ k.np.started_ts = last.now_ts
            /\ k.post # << >>
            /\ IF IdentIsDue(s, k, last.now_ts)
               THEN /\ Len(k.post[1].queue_json) = 2
                    /\ k.post[1].queue_json[1] = k.np.media_id
                    /\ Media[k.post[1].queue_json[2]].kind = "ident"
                    /\ k.post[1].queue_index = 1
                    /\ k.post[1].last_ident_ts = last.now_ts
               ELSE /\ k.post[1].queue_json = << >>
                    /\ k.post[1].last_ident_ts = stored

-----------------------------------------------------------------------------
(* scheduler.py: the queue of a break, by what played last *)

\* kind of the station_state row the advance read: "none" stands for no row
LastKinds == {"none", "", "noise", "song", "ident", "commercial", "top_of_hour"}

\* float(cfg.break_length_s): 1 s up to lengths that take every commercial
FollowLengths == {Sec(t) : t \in 1..MaxTarget + 2}

InitBreakAfter ==
    /\ SchedulerIdle
    /\ \E s \in Stations, last_kind \in LastKinds, target_s \in FollowLengths :
         fn = [name |-> "break_after", station |-> s,
               st |-> IF last_kind = "none" THEN << >>
                      ELSE <<[DefaultRow EXCEPT !.kind = last_kind, !.pending_break = 1]>>,
               target_s |-> target_s, queue |-> << >>, done |-> FALSE]

\* last_kind = str(st["kind"] or "") if st else ""; skip_leading_ident = last_kind == "ident";
\* queue_ids = self._build_ident_plus_commercials_queue(...)
BuildBreakAfter ==
    /\ ~ fn.done
    /\ LET last_kind == IF fn.st # << >> THEN fn.st[1].kind ELSE ""
       IN  \E q \in build_ident_plus_commercials_queue(fn.station, fn.target_s, break_slop_s,
                                                       last_kind = "ident") :
             fn' = [fn EXCEPT !.queue = q, !.done = TRUE]
    /\ SchedulerUnchanged

NextBreakAfter == BuildBreakAfter

SpecBreakAfter == InitBreakAfter /\ [][NextBreakAfter]_vars

\* the cursor the advance read was an ident
AfterIdent == fn.st # << >> /\ fn.st[1].kind = "ident"

\* C38: the queue of a break that fires after an ident begins with a
\* commercial; after anything else, on a station that has idents, it begins
\* with an ident followed by no second ident.
C38_NoIdentAfterIdent ==
    (fn.name = "break_after" /\ fn.done /\ fn.queue # << >>) =>
      IF AfterIdent
      THEN Media[fn.queue[1]].kind = "commercial"
      ELSE station_media_pool(fn.station, "ident") # {} =>
             /\ Media[fn.queue[1]].kind = "ident"
             /\ \A i \in 2..Len(fn.queue) : Media[fn.queue[i]].kind = "commercial"

\* a break built after an ident, which holds commercials only
C38_Witness ==
    /\ fn.name = "break_after" /\ fn.done
    /\ AfterIdent
    /\ Len(fn.queue) >= 1
    /\ \A i \in 1..Len(fn.queue) : Media[fn.queue[i]].kind = "commercial"

-----------------------------------------------------------------------------
(* The queue cursor *)

\* the last call returned: no station's advance raised
Completed ==
    /\ last.op \in {"tick_all", "ensure"}
    /\ \A s \in DOMAIN last.calls : last.calls[s].exc = ""

\* C39: in the station_state a completed tick_all or ensure_station_current
\* call leaves, a row with a queue has 1 <= queue_index <= len(queue) and its
\* current item is queue[queue_index - 1] (the positions of the list count
\* from 0).
C39_QueueCursorInRange ==
    Completed =>
      \A s \in DOMAIN station_state :
        LET row == station_state[s]
        IN  row.queue_json # << >> =>
              /\ 1 <= row.queue_index
              /\ row.queue_index <= Len(row.queue_json)
              /\ row.current_media_id = row.queue_json[row.queue_index]

-----------------------------------------------------------------------------
(* radio.py: the main loop beside tune() calls of the input thread *)

\* most passes of the main loop
MaxLoops == 2

\* deltas of the tune() calls: the initial tune(0.0) and jumps to either end of
\* the band, which change the station
LoopDeltas == {0, 2 * BandSpan + 2, 0 - (2 * BandSpan + 2)}

\* nothing handed to the scheduler or the mixer by the main loop yet
NoHandOver == [station |-> "", dial |-> ""]

\* RadioApp.__init__ and the start of run(): the dial at 90.0, the store empty
\* or holding the song KA was playing, the main loop before its first pass
InitLoop ==
    /\ clock = T0
    /\ cfg_var = CfgVar(0, 0, "")
    /\ \/ station_state = << >> /\ plays = << >>
       \/ LET row == CursorRow(1, T0 - Sec(1), <<1, 3>>, 1, 0, 0, T0 - Sec(1))
          IN  station_state = ("KA" :> row) /\ plays = StoredPlay("KA", row)
    /\ reserved = {}
    /\ last = [op |-> "init", now_ts |-> T0, calls |-> << >>]
    /\ overlay_song = [s \in Stations |-> NullTs]
    /\ bq = NoBuild
    /\ fn = [name |-> "loop", lock_window |-> 2, fade_window |-> 5,
             freq |-> 2 * (90 * 10), station_name |-> "", station_freq |-> 0,
             base_music_vol |-> 0, step |-> NoStep,
             main |-> [pc |-> "tick", now |-> T0, st |-> "", base |-> 0, np |-> NoNP,
                       loops |-> 0],
             ensured |-> NoHandOver, played |-> NoHandOver]

\* tune(delta): the initial tune(0.0) of run() comes first, the others are calls
\* of the input thread; the dial mutex is held throughout, so the main loop is
\* not between its two reads of the dial
LoopTune ==
    /\ \E delta \in LoopDeltas :
         /\ fn.step.tuned \/ delta = 0
         /\ Tune(delta)

\* now = time.time(); self.scheduler.tick_all(now)
MainTick ==
    /\ fn.step.tuned
    /\ fn.main.pc = "tick"
    /\ fn.main.loops < MaxLoops
    /\ \E now_ts \in TuneTimes :
         /\ now_ts >= clock
         /\ \E r \in tick_all(cfg_var, now_ts, station_state, plays) :
              /\ clock' = now_ts
              /\ station_state' = r.db
              /\ plays' = r.plays
              /\ reserved' = r.reserved
              /\ last' = [op |-> "tick_all", now_ts |-> now_ts, calls |-> r.calls]
              /\ overlay_song' = OverlaySongAfter(r.calls)
              /\ fn' = [fn EXCEPT !.main.now = now_ts, !.main.loops = @ + 1,
                                  !.main.pc = IF r.exc # "" THEN "raised" ELSE "read"]
    /\ UNCHANGED <<cfg_var, bq>>

\* with self._lock: st = self.state.station_name; base = self.state.base_music_vol
MainRead ==
    /\ fn.main.pc = "read"
    /\ fn' = [fn EXCEPT !.main.st = fn.station_name, !.main.base = fn.base_music_vol,
                        !.main.pc = IF fn.station_name # "" /\ fn.base_music_vol > 0
                                    THEN "ensure" ELSE "tick"]
    /\ SchedulerUnchanged

\* np = self.scheduler.ensure_station_current(st, now, active=True)
MainEnsure ==
    /\ fn.main.pc = "ensure"
    /\ \E o \in ensure_station_current(cfg_var, fn.main.st, fn.main.now, TRUE, station_state,
                                       plays, reserved) :
         /\ station_state' = o.db
         /\ plays' = o.plays
         /\ reserved' = o.reserved
         /\ last' = [op |-> "ensure", now_ts |-> fn.main.now,
                     calls |-> (fn.main.st :> Call(TRUE, o, station_state, plays, fn.main.st))]
         /\ overlay_song' = OverlaySongAfter(last'.calls)
         /\ fn' = [fn EXCEPT !.main.np = o.np,
                             !.main.pc = IF o.exc # "" THEN "raised" ELSE "play",
                             !.ensured = [station |-> fn.main.st, dial |-> fn.station_name]]
    /\ UNCHANGED <<clock, cfg_var, bq>>

\* self._maybe_log_and_play(np): self.player.play(np), np.station being st
MainPlay ==
    /\ fn.main.pc = "play"
    /\ fn' = [fn EXCEPT !.main.pc = "tick",
                        !.played = [station |-> fn.main.st, dial |-> fn.station_name]]
    /\ SchedulerUnchanged

NextLoop == LoopTune \/ MainTick \/ MainRead \/ MainEnsure \/ MainPlay

SpecLoop == InitLoop /\ [][NextLoop]_vars

\* C40: the station whose program the main loop hands to the mixer, and the
\* station it asks the scheduler for with active=true, is the station the dial
\* is tuned to at that moment.
C40_OnlyTunedStationPlayed ==
    /\ fn.played # NoHandOver => fn.played.station = fn.played.dial
    /\ fn.ensured # NoHandOver => fn.ensured.station = fn.ensured.dial

====
